---- MODULE Spec2Model ----
(***************************************************************************)
(* Accessible-Math-Reader: the semantic tree (core/semantic.py), its       *)
(* navigator, the LaTeX / MathML parser (core/parser.py) and the speech    *)
(* and Braille renderers, as state machines over an object heap.           *)
(*                                                                         *)
(* Conventions                                                             *)
(*   - a SemanticNode object is an entry of `heap`; an object reference    *)
(*     is its index, and None is 0;                                        *)
(*   - Python's 0-based indices are kept in the state (sibling_index);     *)
(*     a list access lst[i] is written lst[i + 1];                         *)
(*   - a str that the code scans character by character (the LaTeX         *)
(*     source, a node's content) is a sequence of characters, each a       *)
(*     one-character string; a str that is only                            *)
(*     concatenated and compared (speech, Braille) is a TLA+ string;       *)
(*   - a non-ASCII character is written as its code point: "U+03B1" is     *)
(*     the Greek letter alpha, "U+283C" the Braille cell of dots 3456.     *)
(***************************************************************************)
EXTENDS Integers, Sequences, FiniteSets, TLC

VARIABLES
    heap,            \* the SemanticNode objects allocated so far
    root,            \* MathNavigator._root / the tree a run works on (0: none)
    current,         \* MathNavigator._current
    sibling_index,   \* MathNavigator._sibling_index
    position_stack,  \* MathNavigator._position_stack
    calls,           \* the navigator calls made so far, with their results
    aria,            \* what ARIANavigator adds to MathNavigator (<<>>: nothing)
    input,           \* the format and the source handed to the parser
    pc,              \* where a run stands: idle, ready, done, ...
    error,           \* the ParseError a parsing run raised (message "": none)
    returned,        \* the value the last call on the tree returned
    config,          \* the Config object the readers and renderers share
    renderer,        \* the cached SpeechRenderer (<<>>: None)
    runs,            \* the expressions processed so far, with their outputs
    line_no,         \* main: the lines of the input file read so far
    output,          \* main: what was written to the output stream
    stderr,          \* main: what was written to sys.stderr
    success          \* main: the success flag of the batch loop

navvars == <<current, sibling_index, position_stack, calls, aria>>
parsevars == <<input, pc, error, returned>>
rendervars == <<config, renderer, runs>>
clivars == <<line_no, output, stderr, success>>
vars == <<heap, root, navvars, parsevars, rendervars, clivars>>

(***************************************************************************)
(* Bounds of the model.                                                    *)
(***************************************************************************)
MaxNodes == 4        \* nodes of a programmatically built tree
MaxCalls == 4        \* navigator calls in one run
MaxHeap == 3         \* objects in the construction model
MaxKids == 2         \* length of a children list handed to a constructor
MaxLen == 3          \* fragments of a LaTeX source
MaxDepth == 3        \* groups nested around one identifier
MaxIndex == 3        \* characters of the optional argument of a root
MaxElems == 2        \* elements of a MathML source

None == 0

(***************************************************************************)
(* SemanticNode: the dataclass and its constructor.                        *)
(***************************************************************************)
EmptyDict == <<>>

\* node_id's default factory draws a uuid4; a fresh draw is modelled by the
\* allocation number, which no two objects share.
FreshNodeId(h) == <<"math-node", Len(h) + 1>>

SemanticNode(h, node_type, content, children, metadata) ==
    [node_type |-> node_type,
     content |-> content,
     children |-> children,
     parent |-> None,
     metadata |-> metadata,
     node_id |-> FreshNodeId(h),
     accessibility_metadata |-> EmptyDict]

\* __post_init__: every child of the new object gets it as parent.
PostInit(h, id) ==
    [k \in DOMAIN h |->
        IF \E i \in DOMAIN h[id].children : h[id].children[i] = k
        THEN [h[k] EXCEPT !.parent = id]
        ELSE h[k]]

\* The constructor call: allocate, then __post_init__.  The new object's
\* reference is Len of the heap returned.
New(h, node_type, content, children, metadata) ==
    PostInit(Append(h, SemanticNode(h, node_type, content, children, metadata)),
             Len(h) + 1)

\* add_child: child.parent = self; self.children.append(child)
AddChild(h, p, child) ==
    [h EXCEPT ![child].parent = p,
              ![p].children = Append(h[p].children, child)]

(***************************************************************************)
(* Tree queries.                                                           *)
(***************************************************************************)
RECURSIVE Concat(_)
Concat(seqs) ==
    IF seqs = <<>> THEN <<>> ELSE Head(seqs) \o Concat(Tail(seqs))

\* The mutant: only Group children are flattened, a Root child is kept.
RECURSIVE GetNavigableChildrenGroupOnly(_, _)
GetNavigableChildrenGroupOnly(h, n) ==
    Concat([i \in DOMAIN h[n].children |->
        LET child == h[n].children[i] IN
        IF h[child].node_type = "GROUP"
        THEN GetNavigableChildrenGroupOnly(h, child)
        ELSE <<child>>])

\* get_navigable_children
RECURSIVE GetNavigableChildren(_, _)
GetNavigableChildren(h, n) ==
    Concat([i \in DOMAIN h[n].children |->
        LET child == h[n].children[i] IN
        IF h[child].node_type \in {"GROUP", "ROOT"}
        THEN GetNavigableChildren(h, child)
        ELSE <<child>>])

\* walk: pre-order traversal of the subtree
RECURSIVE Walk(_, _)
Walk(h, n) ==
    <<n>> \o Concat([i \in DOMAIN h[n].children |-> Walk(h, h[n].children[i])])

(***************************************************************************)
(* Trees built programmatically: nested constructor calls                  *)
(*   SemanticNode(t, content=c, children=[SemanticNode(...), ...])         *)
(* A tree expression is a record [node_type, content, children, metadata]. *)
(***************************************************************************)
Expr(node_type, content, children) ==
    [node_type |-> node_type, content |-> content, children |-> children,
     metadata |-> EmptyDict]

\* Python evaluates the children argument before the call: the children are
\* allocated first, left to right, then the node itself.
RECURSIVE BuildAll(_, _)
RECURSIVE Build(_, _)
BuildAll(h, exprs) ==
    IF exprs = <<>> THEN [heap |-> h, ids |-> <<>>]
    ELSE LET first == Build(h, Head(exprs))
             rest == BuildAll(first.heap, Tail(exprs))
         IN [heap |-> rest.heap, ids |-> <<first.id>> \o rest.ids]
Build(h, e) ==
    LET kids == BuildAll(h, e.children)
        h2 == New(kids.heap, e.node_type, e.content, kids.ids, e.metadata)
    IN [heap |-> h2, id |-> Len(h2)]

\* All tree expressions of exactly n nodes below a given set of root types.
InnerTypes == {"GROUP", "IDENTIFIER"}
ContentOf(node_type) == IF node_type = "IDENTIFIER" THEN <<"a">> ELSE <<>>

RECURSIVE ForestExprs(_)
RECURSIVE TreeExprs(_, _)
ForestExprs(n) ==
    IF n = 0 THEN {<<>>}
    ELSE UNION {{<<t>> \o f : t \in TreeExprs(k, InnerTypes), f \in ForestExprs(n - k)} :
                k \in 1..n}
TreeExprs(n, types) ==
    {Expr(ty, ContentOf(ty), f) : ty \in types, f \in ForestExprs(n - 1)}

\* Example D of the specification.
ExampleD ==
    Expr("FRACTION", <<>>,
         <<Expr("GROUP", <<>>, <<Expr("IDENTIFIER", <<"a">>, <<>>)>>),
           Expr("GROUP", <<>>, <<Expr("IDENTIFIER", <<"b">>, <<>>)>>)>>)

\* A Root nested below the root, which get_navigable_children flattens too.
NestedRoot ==
    Expr("ROOT", <<>>,
         <<Expr("ROOT", <<>>, <<Expr("IDENTIFIER", <<"a">>, <<>>)>>),
           Expr("IDENTIFIER", <<"b">>, <<>>)>>)

NavTrees ==
    UNION {TreeExprs(n, {"ROOT"}) : n \in 1..MaxNodes} \cup {ExampleD, NestedRoot}

(***************************************************************************)
(* MathNavigator.                                                          *)
(***************************************************************************)
\* a call as `calls` keeps it: the operation, what it returned, and the
\* navigator's fields when it was made
Call(op, ret) ==
    [op |-> op, ret |-> ret,
     before |-> [current |-> current, sibling_index |-> sibling_index,
                 position_stack |-> position_stack]]

\* __init__
NavInit(r) ==
    /\ root = r
    /\ current = r
    /\ position_stack = <<>>
    /\ sibling_index = 0
    /\ calls = <<>>

\* the navigator is a MathNavigator, not an ARIANavigator
NoAria == <<>>

NoError == [message |-> "", position |-> 0]

ParseIdle ==
    /\ input = <<>>
    /\ pc = "idle"
    /\ error = NoError
    /\ returned = None

\* Config(): the defaults of SpeechConfig and BrailleConfig
Config ==
    [speech |-> [style |-> "VERBOSE"], braille |-> [notation |-> "NEMETH"]]

RenderIdle ==
    /\ config = Config
    /\ renderer = <<>>
    /\ runs = {}

\* main has not run
CliIdle ==
    /\ line_no = 0
    /\ output = <<>>
    /\ stderr = <<>>
    /\ success = TRUE

InitNav ==
    /\ \E e \in NavTrees :
           LET b == Build(<<>>, e) IN
           /\ heap = b.heap
           /\ NavInit(b.id)
    /\ aria = NoAria
    /\ ParseIdle
    /\ RenderIdle
    /\ CliIdle

\* The mutant: the sibling index is not pushed.
EnterNoPush ==
    /\ Len(calls) < MaxCalls
    /\ LET navigable == GetNavigableChildren(heap, current) IN
       IF navigable = <<>>
       THEN /\ calls' = Append(calls, Call("enter", FALSE))
            /\ UNCHANGED <<current, sibling_index, position_stack>>
       ELSE /\ sibling_index' = 0
            /\ current' = navigable[1]
            /\ calls' = Append(calls, Call("enter", TRUE))
            /\ UNCHANGED position_stack
    /\ UNCHANGED <<heap, root, parsevars, rendervars, clivars>>

\* enter
Enter ==
    /\ Len(calls) < MaxCalls
    /\ LET navigable == GetNavigableChildren(heap, current) IN
       IF navigable = <<>>
       THEN /\ calls' = Append(calls, Call("enter", FALSE))
            /\ UNCHANGED <<current, sibling_index, position_stack>>
       ELSE /\ position_stack' = Append(position_stack, sibling_index)
            /\ sibling_index' = 0
            /\ current' = navigable[1]
            /\ calls' = Append(calls, Call("enter", TRUE))
    /\ UNCHANGED <<heap, root, parsevars, rendervars, clivars>>

\* The mutant: the stack is popped, the sibling index is not restored.
ExitKeepIndex ==
    /\ Len(calls) < MaxCalls
    /\ IF heap[current].parent = None \/ position_stack = <<>>
       THEN /\ calls' = Append(calls, Call("exit", FALSE))
            /\ UNCHANGED <<current, sibling_index, position_stack>>
       ELSE /\ current' = heap[current].parent
            /\ position_stack' = SubSeq(position_stack, 1, Len(position_stack) - 1)
            /\ calls' = Append(calls, Call("exit", TRUE))
            /\ UNCHANGED sibling_index
    /\ UNCHANGED <<heap, root, parsevars, rendervars, clivars>>

\* exit
Exit ==
    /\ Len(calls) < MaxCalls
    /\ IF heap[current].parent = None \/ position_stack = <<>>
       THEN /\ calls' = Append(calls, Call("exit", FALSE))
            /\ UNCHANGED <<current, sibling_index, position_stack>>
       ELSE /\ current' = heap[current].parent
            /\ sibling_index' = position_stack[Len(position_stack)]
            /\ position_stack' = SubSeq(position_stack, 1, Len(position_stack) - 1)
            /\ calls' = Append(calls, Call("exit", TRUE))
    /\ UNCHANGED <<heap, root, parsevars, rendervars, clivars>>

\* next
NextSibling ==
    /\ Len(calls) < MaxCalls
    /\ IF heap[current].parent = None
       THEN /\ calls' = Append(calls, Call("next", FALSE))
            /\ UNCHANGED <<current, sibling_index, position_stack>>
       ELSE LET siblings == GetNavigableChildren(heap, heap[current].parent) IN
            IF sibling_index >= Len(siblings) - 1
            THEN /\ calls' = Append(calls, Call("next", FALSE))
                 /\ UNCHANGED <<current, sibling_index, position_stack>>
            ELSE /\ sibling_index' = sibling_index + 1
                 /\ current' = siblings[sibling_index + 2]
                 /\ calls' = Append(calls, Call("next", TRUE))
                 /\ UNCHANGED position_stack
    /\ UNCHANGED <<heap, root, parsevars, rendervars, clivars>>

\* previous.  The index is decremented before the list is read, so a read
\* past the end of the list (IndexError) leaves the decremented index.
Previous ==
    /\ Len(calls) < MaxCalls
    /\ IF heap[current].parent = None \/ sibling_index <= 0
       THEN /\ calls' = Append(calls, Call("previous", FALSE))
            /\ UNCHANGED <<current, sibling_index, position_stack>>
       ELSE LET siblings == GetNavigableChildren(heap, heap[current].parent) IN
            /\ sibling_index' = sibling_index - 1
            /\ IF sibling_index - 1 < Len(siblings)
               THEN /\ current' = siblings[sibling_index]
                    /\ calls' = Append(calls, Call("previous", TRUE))
               ELSE /\ calls' = Append(calls, Call("previous", "IndexError"))
                    /\ UNCHANGED current
            /\ UNCHANGED position_stack
    /\ UNCHANGED <<heap, root, parsevars, rendervars, clivars>>

\* reset
Reset ==
    /\ Len(calls) < MaxCalls
    /\ current' = root
    /\ position_stack' = <<>>
    /\ sibling_index' = 0
    /\ calls' = Append(calls, Call("reset", "None"))
    /\ UNCHANGED <<heap, root, parsevars, rendervars, clivars>>

\* the calls on a MathNavigator
NextNav ==
    \/ Enter /\ UNCHANGED aria
    \/ Exit /\ UNCHANGED aria
    \/ NextSibling /\ UNCHANGED aria
    \/ Previous /\ UNCHANGED aria
    \/ Reset /\ UNCHANGED aria

SpecNav == InitNav /\ [][NextNav]_vars

NavIdle ==
    /\ root = None
    /\ current = None
    /\ sibling_index = 0
    /\ position_stack = <<>>
    /\ calls = <<>>
    /\ aria = NoAria

(***************************************************************************)
(* Programmatic construction: any caller may construct nodes and call      *)
(* add_child on the objects it holds.                                      *)
(***************************************************************************)
NodeTypes ==
    {"ROOT", "GROUP", "NUMBER", "IDENTIFIER", "FRACTION", "SUPERSCRIPT",
     "SUBSCRIPT", "SQRT", "NROOT", "OPERATOR", "RELATION", "FUNCTION", "SUM",
     "PRODUCT", "INTEGRAL", "LIMIT", "MATRIX", "MATRIX_ROW", "TEXT", "SPACE"}

SeqsUpTo(S, n) == UNION {[1..k -> S] : k \in 0..n}

InitTree ==
    /\ heap = <<>>
    /\ NavIdle
    /\ ParseIdle
    /\ RenderIdle
    /\ CliIdle

\* SemanticNode(node_type, children=[...]) on objects the caller holds
Construct ==
    /\ Len(heap) < MaxHeap
    /\ \E ty \in {"GROUP", "IDENTIFIER"}, kids \in SeqsUpTo(DOMAIN heap, MaxKids) :
           heap' = New(heap, ty, ContentOf(ty), kids, EmptyDict)
    /\ UNCHANGED <<root, navvars, parsevars, rendervars, clivars>>

\* p.add_child(child)
AddChildCall ==
    /\ \E p \in DOMAIN heap, child \in DOMAIN heap :
           /\ Len(heap[p].children) < MaxKids
           /\ heap' = AddChild(heap, p, child)
    /\ UNCHANGED <<root, navvars, parsevars, rendervars, clivars>>

NextTree == Construct \/ AddChildCall

SpecTree == InitTree /\ [][NextTree]_vars

(***************************************************************************)
(* Characters and strings of the LaTeX source.                             *)
(***************************************************************************)
LowerCase ==
    <<"a", "b", "c", "d", "e", "f", "g", "h", "i", "j", "k", "l", "m",
      "n", "o", "p", "q", "r", "s", "t", "u", "v", "w", "x", "y", "z">>
UpperCase ==
    <<"A", "B", "C", "D", "E", "F", "G", "H", "I", "J", "K", "L", "M",
      "N", "O", "P", "Q", "R", "S", "T", "U", "V", "W", "X", "Y", "Z">>
DigitChars == {"0", "1", "2", "3", "4", "5", "6", "7", "8", "9"}

IsUpper(c) == \E i \in DOMAIN UpperCase : UpperCase[i] = c
IsLower(c) == \E i \in DOMAIN LowerCase : LowerCase[i] = c
\* str.isalpha, str.isdigit, str.isspace on the ASCII characters of the inputs
IsAlpha(c) == IsUpper(c) \/ IsLower(c)
IsDigit(c) == c \in DigitChars
IsSpace(c) == c \in {" ", "\t", "\n"}
\* str.lower on one character and on a string
LowerChar(c) ==
    IF IsUpper(c)
    THEN LowerCase[CHOOSE i \in DOMAIN UpperCase : UpperCase[i] = c]
    ELSE c
LowerStr(s) == [i \in DOMAIN s |-> LowerChar(s[i])]

\* the str of a sequence of characters
RECURSIVE Str(_)
Str(s) == IF s = <<>> THEN "" ELSE Head(s) \o Str(Tail(s))

\* latex[pos] and latex[a:b] for 0-based positions
At(latex, pos) == latex[pos + 1]
Slice(latex, a, b) == SubSeq(latex, a + 1, b)

\* str.strip() and str.strip("$")
RECURSIVE LStrip(_, _)
LStrip(s, drop) ==
    IF s # <<>> /\ Head(s) \in drop THEN LStrip(Tail(s), drop) ELSE s
RECURSIVE RStrip(_, _)
RStrip(s, drop) ==
    IF s # <<>> /\ s[Len(s)] \in drop
    THEN RStrip(SubSeq(s, 1, Len(s) - 1), drop)
    ELSE s
Strip(s, drop) == RStrip(LStrip(s, drop), drop)
Whitespace == {" ", "\t", "\n"}

\* a dict as the sequence of its (key, value) items in insertion order
HasKey(dict, key) == \E i \in DOMAIN dict : dict[i][1] = key
Get(dict, key, default) ==
    IF HasKey(dict, key)
    THEN dict[CHOOSE i \in DOMAIN dict : dict[i][1] = key][2]
    ELSE default

(***************************************************************************)
(* MathParser: the tables.                                                 *)
(***************************************************************************)
GREEK_LETTERS ==
    <<<<<<"a", "l", "p", "h", "a">>, "U+03B1">>,
      <<<<"b", "e", "t", "a">>, "U+03B2">>,
      <<<<"g", "a", "m", "m", "a">>, "U+03B3">>,
      <<<<"d", "e", "l", "t", "a">>, "U+03B4">>,
      <<<<"e", "p", "s", "i", "l", "o", "n">>, "U+03B5">>,
      <<<<"z", "e", "t", "a">>, "U+03B6">>,
      <<<<"e", "t", "a">>, "U+03B7">>,
      <<<<"t", "h", "e", "t", "a">>, "U+03B8">>,
      <<<<"i", "o", "t", "a">>, "U+03B9">>,
      <<<<"k", "a", "p", "p", "a">>, "U+03BA">>,
      <<<<"l", "a", "m", "b", "d", "a">>, "U+03BB">>,
      <<<<"m", "u">>, "U+03BC">>,
      <<<<"n", "u">>, "U+03BD">>,
      <<<<"x", "i">>, "U+03BE">>,
      <<<<"p", "i">>, "U+03C0">>,
      <<<<"r", "h", "o">>, "U+03C1">>,
      <<<<"s", "i", "g", "m", "a">>, "U+03C3">>,
      <<<<"t", "a", "u">>, "U+03C4">>,
      <<<<"u", "p", "s", "i", "l", "o", "n">>, "U+03C5">>,
      <<<<"p", "h", "i">>, "U+03C6">>,
      <<<<"c", "h", "i">>, "U+03C7">>,
      <<<<"p", "s", "i">>, "U+03C8">>,
      <<<<"o", "m", "e", "g", "a">>, "U+03C9">>,
      <<<<"A", "l", "p", "h", "a">>, "U+0391">>,
      <<<<"B", "e", "t", "a">>, "U+0392">>,
      <<<<"G", "a", "m", "m", "a">>, "U+0393">>,
      <<<<"D", "e", "l", "t", "a">>, "U+0394">>,
      <<<<"T", "h", "e", "t", "a">>, "U+0398">>,
      <<<<"L", "a", "m", "b", "d", "a">>, "U+039B">>,
      <<<<"X", "i">>, "U+039E">>,
      <<<<"P", "i">>, "U+03A0">>,
      <<<<"S", "i", "g", "m", "a">>, "U+03A3">>,
      <<<<"P", "h", "i">>, "U+03A6">>,
      <<<<"P", "s", "i">>, "U+03A8">>,
      <<<<"O", "m", "e", "g", "a">>, "U+03A9">>>>

OPERATORS ==
    <<<<"+", "+">>,
      <<"-", "-">>,
      <<"*", "U+00D7">>,
      <<"/", "U+00F7">>,
      <<"\\times", "U+00D7">>,
      <<"\\cdot", "U+00B7">>,
      <<"\\div", "U+00F7">>,
      <<"\\pm", "U+00B1">>,
      <<"\\mp", "U+2213">>>>

RELATIONS ==
    <<<<"=", "=">>,
      <<"<", "<">>,
      <<">", ">">>,
      <<"\\leq", "U+2264">>,
      <<"\\geq", "U+2265">>,
      <<"\\neq", "U+2260">>,
      <<"\\approx", "U+2248">>,
      <<"\\equiv", "U+2261">>,
      <<"\\le", "U+2264">>,
      <<"\\ge", "U+2265">>,
      <<"\\ne", "U+2260">>>>

FUNCTION_NAMES == {"sin", "cos", "tan", "log", "ln", "exp", "lim"}

(***************************************************************************)
(* MathParser: the LaTeX parser.  Every operator takes the heap and        *)
(* returns [heap, pos, err, errpos]: the heap after its effects, the       *)
(* position it returns, and the message and position of the ParseError it  *)
(* raised (err = "" when it raised none).                                  *)
(***************************************************************************)
Ret(h, pos) == [heap |-> h, pos |-> pos, err |-> "", errpos |-> 0]
Raise(h, message, pos) == [heap |-> h, pos |-> pos, err |-> message, errpos |-> pos]

\* parent.add_child(SemanticNode(node_type, content=content, metadata=metadata))
AddNew(h, parent, node_type, content, metadata) ==
    LET h1 == New(h, node_type, content, <<>>, metadata)
    IN AddChild(h1, parent, Len(h1))

\* _find_matching_brace: the scan
RECURSIVE BraceScan(_, _, _)
BraceScan(latex, pos, depth) ==
    IF pos < Len(latex) /\ depth > 0
    THEN BraceScan(latex, pos + 1,
                   IF At(latex, pos) = "{" THEN depth + 1
                   ELSE IF At(latex, pos) = "}" THEN depth - 1
                   ELSE depth)
    ELSE [pos |-> pos, depth |-> depth]

\* The mutant: the scan's end is returned whether or not the depth is 0.
FindMatchingBraceNoRaise(h, latex, pos) ==
    Ret(h, BraceScan(latex, pos + 1, 1).pos - 1)

\* _find_matching_brace
FindMatchingBrace(h, latex, pos) ==
    LET s == BraceScan(latex, pos + 1, 1)
    IN IF s.depth # 0
       THEN Raise(h, "Unclosed brace", s.pos)
       ELSE Ret(h, s.pos - 1)

\* _skip_whitespace
RECURSIVE SkipWhitespace(_, _)
SkipWhitespace(latex, pos) ==
    IF pos < Len(latex) /\ IsSpace(At(latex, pos))
    THEN SkipWhitespace(latex, pos + 1)
    ELSE pos

\* _parse_number: the end position
RECURSIVE NumberEnd(_, _, _)
NumberEnd(latex, pos, has_decimal) ==
    IF pos >= Len(latex) THEN pos
    ELSE IF IsDigit(At(latex, pos)) THEN NumberEnd(latex, pos + 1, has_decimal)
    ELSE IF At(latex, pos) = "." /\ ~has_decimal THEN NumberEnd(latex, pos + 1, TRUE)
    ELSE pos

\* _parse_number
ParseNumber(latex, pos) ==
    LET end == NumberEnd(latex, pos, FALSE)
    IN [num |-> Slice(latex, pos, end), end |-> end]

\* re.match(r"\\([a-zA-Z]+)", latex[pos:]): the letters after the backslash
RECURSIVE LettersFrom(_, _)
LettersFrom(latex, pos) ==
    IF pos < Len(latex) /\ IsAlpha(At(latex, pos))
    THEN <<At(latex, pos)>> \o LettersFrom(latex, pos + 1)
    ELSE <<>>

\* str.find("]", pos): the position, or -1
RECURSIVE FindBracket(_, _)
FindBracket(latex, pos) ==
    IF pos >= Len(latex) THEN -1
    ELSE IF At(latex, pos) = "]" THEN pos
    ELSE FindBracket(latex, pos + 1)

\* The Greek-letter branch of _parse_latex_command: the value of the first
\* key whose lower-cased spelling is the lower-cased command.
GreekValue(cmd) ==
    GREEK_LETTERS[CHOOSE i \in DOMAIN GREEK_LETTERS :
        /\ LowerStr(GREEK_LETTERS[i][1]) = LowerStr(cmd)
        /\ \A j \in 1..(i - 1) : LowerStr(GREEK_LETTERS[j][1]) # LowerStr(cmd)][2]
IsGreek(cmd) ==
    \E i \in DOMAIN GREEK_LETTERS : LowerStr(GREEK_LETTERS[i][1]) = LowerStr(cmd)

RECURSIVE ParseLatexTokens(_, _, _)
RECURSIVE TokensLoop(_, _, _, _)
RECURSIVE TokensNext(_, _, _)
RECURSIVE TokenStep(_, _, _, _)
RECURSIVE ParseGroup(_, _, _, _, _)
RECURSIVE GroupTokens(_, _, _, _)
RECURSIVE GroupAttach(_, _, _, _)
RECURSIVE ParseLatexCommand(_, _, _, _)
RECURSIVE Command(_, _, _, _, _, _)
RECURSIVE ParseFrac(_, _, _, _)
RECURSIVE FracNumerator(_, _, _, _, _)
RECURSIVE FracDenominator(_, _, _, _, _)
RECURSIVE FracBraces(_, _, _, _, _, _)
RECURSIVE FracNode(_, _, _, _, _)
RECURSIVE FracNumNode(_, _, _, _, _, _)
RECURSIVE FracNumParsed(_, _, _, _, _, _)
RECURSIVE FracDenomNode(_, _, _, _, _)
RECURSIVE ParseSqrt(_, _, _, _)
RECURSIVE SqrtIndex(_, _, _, _, _)
RECURSIVE SqrtRadicand(_, _, _, _, _)
RECURSIVE SqrtBraces(_, _, _, _, _, _)
RECURSIVE NrootNode(_, _, _, _, _)
RECURSIVE NrootIndexNode(_, _, _, _, _, _)
RECURSIVE NrootIndexParsed(_, _, _, _, _, _)
RECURSIVE SqrtNode(_, _, _, _)
RECURSIVE SqrtRadicandNode(_, _, _, _, _)
RECURSIVE ParseLatexSuper(_, _, _, _)
RECURSIVE ParseLatexSub(_, _, _, _)
RECURSIVE ParseScript(_, _, _, _, _, _, _)
RECURSIVE ScriptBase(_, _, _, _, _, _, _)
RECURSIVE ScriptContent(_, _, _, _, _, _, _, _)
RECURSIVE ScriptNode(_, _, _, _, _, _)
RECURSIVE ScriptPayload(_, _, _, _, _)

\* `node.add_child(x); parent.add_child(node); return pos`, the end of
\* _parse_frac, _parse_sqrt, _parse_latex_super and _parse_latex_sub: r is
\* the result of parsing the tokens of x
Attach(r, node, x, parent, pos) ==
    IF r.err # "" THEN r
    ELSE Ret(AddChild(AddChild(r.heap, node, x), parent, node), pos)

\* _parse_latex_tokens: the while loop from position pos
TokensLoop(h, latex, pos, parent) ==
    IF pos < Len(latex)
    THEN TokensNext(TokenStep(h, latex, pos, parent), latex, parent)
    ELSE Ret(h, pos)

\* _parse_latex_tokens: the loop after an iteration with result r
TokensNext(r, latex, parent) ==
    IF r.err # "" THEN r ELSE TokensLoop(r.heap, latex, r.pos, parent)

\* _parse_latex_tokens
ParseLatexTokens(h, latex, parent) == TokensLoop(h, latex, 0, parent)

\* _parse_latex_tokens: one iteration of the loop at position pos
TokenStep(h, latex, pos, parent) ==
    LET char == At(latex, pos) IN
    IF IsSpace(char) THEN Ret(h, pos + 1)
    ELSE IF char = "\\" THEN ParseLatexCommand(h, latex, pos, parent)
    ELSE IF char = "^" THEN ParseLatexSuper(h, latex, pos, parent)
    ELSE IF char = "_" THEN ParseLatexSub(h, latex, pos, parent)
    ELSE IF char = "{" THEN
        ParseGroup(h, latex, pos, FindMatchingBrace(h, latex, pos), parent)
    ELSE IF char = "(" THEN Ret(AddNew(h, parent, "OPERATOR", <<"(">>, EmptyDict), pos + 1)
    ELSE IF char = ")" THEN Ret(AddNew(h, parent, "OPERATOR", <<")">>, EmptyDict), pos + 1)
    ELSE IF char \in {"+", "-", "*", "/"} THEN
        Ret(AddNew(h, parent, "OPERATOR", <<Get(OPERATORS, char, char)>>, EmptyDict), pos + 1)
    ELSE IF char \in {"=", "<", ">"} THEN
        Ret(AddNew(h, parent, "RELATION", <<Get(RELATIONS, char, char)>>, EmptyDict), pos + 1)
    ELSE IF IsDigit(char)
            \/ (char = "." /\ pos + 1 < Len(latex) /\ IsDigit(At(latex, pos + 1))) THEN
        Ret(AddNew(h, parent, "NUMBER", ParseNumber(latex, pos).num, EmptyDict),
            ParseNumber(latex, pos).end)
    ELSE IF IsAlpha(char) THEN
        Ret(AddNew(h, parent, "IDENTIFIER", <<char>>, EmptyDict), pos + 1)
    ELSE Ret(AddNew(h, parent, "TEXT", <<char>>, EmptyDict), pos + 1)

\* The braced group of _parse_latex_tokens: m is the result of
\* _find_matching_brace(latex, pos)
ParseGroup(h, latex, pos, m, parent) ==
    IF m.err # "" THEN m
    ELSE GroupTokens(New(h, "GROUP", <<>>, <<>>, EmptyDict),
                     Slice(latex, pos + 1, m.pos), m.pos, parent)

\* group = SemanticNode(GROUP) is the last object of h1:
\* `self._parse_latex_tokens(group_content, group); parent.add_child(group)`
GroupTokens(h1, group_content, end, parent) ==
    GroupAttach(ParseLatexTokens(h1, group_content, Len(h1)), Len(h1), parent, end + 1)

\* `parent.add_child(group); pos = end + 1` after the group's tokens were
\* parsed with result r
GroupAttach(r, group, parent, pos) ==
    IF r.err # "" THEN r ELSE Ret(AddChild(r.heap, parent, group), pos)

\* _parse_latex_command
ParseLatexCommand(h, latex, pos, parent) ==
    LET cmd == LettersFrom(latex, pos + 1) IN
    IF cmd = <<>> THEN Ret(h, pos + 1)
    ELSE Command(h, latex, cmd, Str(cmd), pos + 1 + Len(cmd), parent)

\* _parse_latex_command after the match: cmd = match.group(1), cmd_end
Command(h, latex, cmd, name, cmd_end, parent) ==
    IF name = "frac" THEN ParseFrac(h, latex, cmd_end, parent)
    ELSE IF name = "sqrt" THEN ParseSqrt(h, latex, cmd_end, parent)
    ELSE IF name = "sum" THEN Ret(AddNew(h, parent, "SUM", <<"U+2211">>, EmptyDict), cmd_end)
    ELSE IF name = "prod" THEN Ret(AddNew(h, parent, "PRODUCT", <<"U+220F">>, EmptyDict), cmd_end)
    ELSE IF name = "int" THEN Ret(AddNew(h, parent, "INTEGRAL", <<"U+222B">>, EmptyDict), cmd_end)
    ELSE IF IsGreek(cmd) THEN
        Ret(AddNew(h, parent, "IDENTIFIER", <<GreekValue(cmd)>>, EmptyDict), cmd_end)
    ELSE IF HasKey(OPERATORS, "\\" \o name) THEN
        Ret(AddNew(h, parent, "OPERATOR", <<Get(OPERATORS, "\\" \o name, "")>>, EmptyDict), cmd_end)
    ELSE IF HasKey(RELATIONS, "\\" \o name) THEN
        Ret(AddNew(h, parent, "RELATION", <<Get(RELATIONS, "\\" \o name, "")>>, EmptyDict), cmd_end)
    ELSE IF name = "infty" THEN
        Ret(AddNew(h, parent, "IDENTIFIER", <<"U+221E">>, EmptyDict), cmd_end)
    ELSE IF name \in FUNCTION_NAMES THEN
        Ret(AddNew(h, parent, "FUNCTION", cmd, EmptyDict), cmd_end)
    ELSE Ret(AddNew(h, parent, "TEXT", <<"\\">> \o cmd, "unknown_command" :> TRUE), cmd_end)

\* _parse_frac
ParseFrac(h, latex, pos0, parent) ==
    LET pos == SkipWhitespace(latex, pos0) IN
    IF pos >= Len(latex) \/ At(latex, pos) # "{"
    THEN Raise(h, "Expected { after \\frac", pos)
    ELSE FracNumerator(h, latex, pos, FindMatchingBrace(h, latex, pos), parent)

\* _parse_frac from `num_end = self._find_matching_brace(latex, pos)`, whose
\* result is m
FracNumerator(h, latex, pos, m, parent) ==
    IF m.err # "" THEN m
    ELSE FracDenominator(h, latex, Slice(latex, pos + 1, m.pos),
                         SkipWhitespace(latex, m.pos + 1), parent)

\* _parse_frac from the check of the denominator's brace
FracDenominator(h, latex, num_content, pos, parent) ==
    IF pos >= Len(latex) \/ At(latex, pos) # "{"
    THEN Raise(h, "Expected { for denominator", pos)
    ELSE FracBraces(h, latex, num_content, pos, FindMatchingBrace(h, latex, pos), parent)

\* _parse_frac from `denom_end = self._find_matching_brace(latex, pos)`,
\* whose result is m
FracBraces(h, latex, num_content, pos, m, parent) ==
    IF m.err # "" THEN m
    ELSE FracNode(New(h, "FRACTION", <<>>, <<>>, EmptyDict), num_content,
                  Slice(latex, pos + 1, m.pos), m.pos, parent)

\* frac is the last object of h1: num_node = SemanticNode(GROUP, ...)
FracNode(h1, num_content, denom_content, denom_end, parent) ==
    FracNumNode(New(h1, "GROUP", <<>>, <<>>, "role" :> "numerator"), Len(h1),
                num_content, denom_content, denom_end, parent)

\* num_node is the last object of h2: self._parse_latex_tokens(num_content, num_node)
FracNumNode(h2, frac, num_content, denom_content, denom_end, parent) ==
    FracNumParsed(ParseLatexTokens(h2, num_content, Len(h2)), frac, Len(h2),
                  denom_content, denom_end, parent)

\* frac.add_child(num_node); denom_node = SemanticNode(GROUP, ...)
FracNumParsed(r, frac, num_node, denom_content, denom_end, parent) ==
    IF r.err # "" THEN r
    ELSE FracDenomNode(New(AddChild(r.heap, frac, num_node), "GROUP", <<>>, <<>>,
                           "role" :> "denominator"),
                       frac, denom_content, denom_end, parent)

\* denom_node is the last object of h4
FracDenomNode(h4, frac, denom_content, denom_end, parent) ==
    Attach(ParseLatexTokens(h4, denom_content, Len(h4)), frac, Len(h4), parent,
           denom_end + 1)

\* _parse_sqrt
ParseSqrt(h, latex, pos0, parent) ==
    LET pos == SkipWhitespace(latex, pos0) IN
    IF pos < Len(latex) /\ At(latex, pos) = "["
    THEN SqrtIndex(h, latex, pos, FindBracket(latex, pos), parent)
    ELSE SqrtRadicand(h, latex, <<>>, pos, parent)

\* _parse_sqrt: the optional argument, bracket_end = latex.find("]", pos)
SqrtIndex(h, latex, pos, bracket_end, parent) ==
    IF bracket_end = -1
    THEN Raise(h, "Unclosed [ in sqrt", pos)
    ELSE SqrtRadicand(h, latex, Slice(latex, pos + 1, bracket_end),
                      SkipWhitespace(latex, bracket_end + 1), parent)

\* _parse_sqrt from `# Parse radicand`; index_content is <<>> for None and
\* for the empty string, which `if index_content:` does not tell apart
SqrtRadicand(h, latex, index_content, pos, parent) ==
    IF pos >= Len(latex) \/ At(latex, pos) # "{"
    THEN Raise(h, "Expected { after \\sqrt", pos)
    ELSE SqrtBraces(h, latex, index_content, pos, FindMatchingBrace(h, latex, pos), parent)

\* _parse_sqrt from `brace_end = self._find_matching_brace(latex, pos)`,
\* whose result is m
SqrtBraces(h, latex, index_content, pos, m, parent) ==
    IF m.err # "" THEN m
    ELSE IF index_content # <<>>
    THEN NrootNode(New(h, "NROOT", <<>>, <<>>, EmptyDict), index_content,
                   Slice(latex, pos + 1, m.pos), m.pos, parent)
    ELSE SqrtNode(New(h, "SQRT", <<>>, <<>>, EmptyDict),
                  Slice(latex, pos + 1, m.pos), m.pos, parent)

\* sqrt = SemanticNode(NROOT) is the last object of h1
NrootNode(h1, index_content, radicand_content, brace_end, parent) ==
    NrootIndexNode(New(h1, "GROUP", <<>>, <<>>, "role" :> "index"), Len(h1),
                   index_content, radicand_content, brace_end, parent)

\* index_node is the last object of h2
NrootIndexNode(h2, sqrt, index_content, radicand_content, brace_end, parent) ==
    NrootIndexParsed(ParseLatexTokens(h2, index_content, Len(h2)), sqrt, Len(h2),
                     radicand_content, brace_end, parent)

\* sqrt.add_child(index_node); radicand = SemanticNode(GROUP, ...)
NrootIndexParsed(r, sqrt, index_node, radicand_content, brace_end, parent) ==
    IF r.err # "" THEN r
    ELSE SqrtRadicandNode(New(AddChild(r.heap, sqrt, index_node), "GROUP", <<>>, <<>>,
                              "role" :> "radicand"),
                          sqrt, radicand_content, brace_end, parent)

\* sqrt = SemanticNode(SQRT) is the last object of h1
SqrtNode(h1, radicand_content, brace_end, parent) ==
    SqrtRadicandNode(New(h1, "GROUP", <<>>, <<>>, "role" :> "radicand"), Len(h1),
                     radicand_content, brace_end, parent)

\* radicand is the last object of h4
SqrtRadicandNode(h4, sqrt, radicand_content, brace_end, parent) ==
    Attach(ParseLatexTokens(h4, radicand_content, Len(h4)), sqrt, Len(h4), parent,
           brace_end + 1)

\* The mutant: the base is read (parent.children[-1]) but stays in the list.
PopChildKeep(h, parent) == h

\* parent.children.pop(): the list without its last element (the element
\* keeps its parent reference)
PopChild(h, parent) ==
    [h EXCEPT ![parent].children = SubSeq(@, 1, Len(@) - 1)]

\* The mutant: the base is read but not taken off the parent's list.
ParseScriptKeepBase(h, latex, pos0, parent, node_type, role, message) ==
    IF h[parent].children = <<>>
    THEN Raise(h, message, pos0 + 1)
    ELSE ScriptBase(h, latex, pos0 + 1, parent,
                    h[parent].children[Len(h[parent].children)], node_type, role)

\* The bodies of _parse_latex_super and _parse_latex_sub, which differ in
\* the node type, the role and the message only: pos0 is the position of
\* the ^ or _
ParseScript(h, latex, pos0, parent, node_type, role, message) ==
    IF h[parent].children = <<>>
    THEN Raise(h, message, pos0 + 1)
    ELSE ScriptBase(PopChild(h, parent), latex, pos0 + 1, parent,
                    h[parent].children[Len(h[parent].children)], node_type, role)

\* from `# Parse the exponent`: base = parent.children.pop() has been taken
ScriptBase(h1, latex, pos, parent, base, node_type, role) ==
    IF pos < Len(latex) /\ At(latex, pos) = "{"
    THEN ScriptContent(h1, latex, pos, FindMatchingBrace(h1, latex, pos), parent, base,
                       node_type, role)
    ELSE ScriptNode(New(h1, node_type, <<>>, <<>>, EmptyDict), base,
                    IF pos < Len(latex) THEN <<At(latex, pos)>> ELSE <<>>,
                    pos + 1, parent, role)

\* the braced exponent: m is the result of _find_matching_brace(latex, pos)
ScriptContent(h1, latex, pos, m, parent, base, node_type, role) ==
    IF m.err # "" THEN m
    ELSE ScriptNode(New(h1, node_type, <<>>, <<>>, EmptyDict), base,
                    Slice(latex, pos + 1, m.pos), m.pos + 1, parent, role)

\* sup = SemanticNode(SUPERSCRIPT) is the last object of h2:
\* `sup.add_child(base); exp = SemanticNode(GROUP, ...)`
ScriptNode(h2, base, content, pos, parent, role) ==
    ScriptPayload(New(AddChild(h2, Len(h2), base), "GROUP", <<>>, <<>>, "role" :> role),
                  Len(h2), content, pos, parent)

\* exp is the last object of h4
ScriptPayload(h4, script, content, pos, parent) ==
    Attach(ParseLatexTokens(h4, content, Len(h4)), script, Len(h4), parent, pos)

\* _parse_latex_super
ParseLatexSuper(h, latex, pos, parent) ==
    ParseScript(h, latex, pos, parent, "SUPERSCRIPT", "exponent",
                "Superscript without base")

\* _parse_latex_sub
ParseLatexSub(h, latex, pos, parent) ==
    ParseScript(h, latex, pos, parent, "SUBSCRIPT", "subscript",
                "Subscript without base")

\* parse_latex: the source after the $ delimiters are removed
Delimited(latex) == Strip(Strip(Strip(latex, Whitespace), {"$"}), Whitespace)

\* parse_latex: what the call leaves, [heap, root, err, errpos]; no tree is
\* returned when the ParseError err was raised
ParseResult(r, root_node) ==
    [heap |-> r.heap, root |-> IF r.err = "" THEN root_node ELSE None,
     err |-> r.err, errpos |-> r.errpos]

\* parse_latex: root = SemanticNode(ROOT, metadata={"source": latex}) is the
\* last object of h1
ParseRoot(h1, src) == ParseResult(ParseLatexTokens(h1, src, Len(h1)), Len(h1))

\* parse_latex
ParseLatex(h, latex) ==
    ParseRoot(New(h, "ROOT", <<>>, <<>>, "source" :> Str(Delimited(latex))), Delimited(latex))

(***************************************************************************)
(* MathParser: the MathML parser.  An element of the tree that             *)
(* ET.fromstring returns is a record [tag, text, children]: tag is the     *)
(* list tag.split("}") (one entry unless the tag carries a namespace),     *)
(* text is a sequence of characters or NoText (None).                      *)
(***************************************************************************)
NoText == <<"None">>

Element(tag, text, children) == [tag |-> tag, text |-> text, children |-> children]

\* `x in s` for strings: x is a contiguous part of s
IsSubstring(x, s) ==
    \E i \in 0..(Len(s) - Len(x)) : SubSeq(s, i + 1, i + Len(x)) = x

\* the string "=<>..." of the mo branch
RELATION_CHARS == <<"=", "<", ">", "U+2264", "U+2265", "U+2260">>

\* (elem.text or "").strip()
ElementText(elem) ==
    IF elem.text = NoText THEN <<>> ELSE Strip(elem.text, Whitespace)

\* elem.tag.split("}")[-1] if "}" in elem.tag else elem.tag
TagOf(elem) == elem.tag[Len(elem.tag)]

RECURSIVE ParseMathmlElement(_, _, _)
RECURSIVE ParseMathmlChildren(_, _, _)
RECURSIVE Mrow(_, _, _)
RECURSIVE MathmlPair(_, _, _, _, _)
RECURSIVE PairFirst(_, _, _, _, _)
RECURSIVE PairSecond(_, _, _, _)
RECURSIVE Msqrt(_, _, _)
RECURSIVE MsqrtRadicand(_, _, _, _)

\* `for child in elem: self._parse_mathml_element(child, parent)`
ParseMathmlChildren(h, elems, parent) ==
    IF elems = <<>> THEN h
    ELSE ParseMathmlChildren(ParseMathmlElement(h, Head(elems), parent), Tail(elems), parent)

\* mrow: group is the last object of h1
Mrow(h1, elem, parent) ==
    AddChild(ParseMathmlChildren(h1, elem.children, Len(h1)), parent, Len(h1))

\* mfrac, msup, msub: node (frac, sup, sub) is the last object of h1
MathmlPair(h1, elem, parent, role1, role2) ==
    IF Len(elem.children) >= 2
    THEN PairFirst(New(h1, "GROUP", <<>>, <<>>, "role" :> role1), Len(h1), elem, parent, role2)
    ELSE AddChild(h1, parent, Len(h1))

\* the first group (num, base) is the last object of h2
PairFirst(h2, node, elem, parent, role2) ==
    PairSecond(New(AddChild(ParseMathmlElement(h2, elem.children[1], Len(h2)), node, Len(h2)),
                   "GROUP", <<>>, <<>>, "role" :> role2),
               node, elem, parent)

\* the second group (denom, exp, subscript) is the last object of h4
PairSecond(h4, node, elem, parent) ==
    AddChild(AddChild(ParseMathmlElement(h4, elem.children[2], Len(h4)), node, Len(h4)),
             parent, node)

\* msqrt: sqrt is the last object of h1
Msqrt(h1, elem, parent) ==
    MsqrtRadicand(New(h1, "GROUP", <<>>, <<>>, "role" :> "radicand"), Len(h1), elem, parent)

\* radicand is the last object of h2
MsqrtRadicand(h2, sqrt, elem, parent) ==
    AddChild(AddChild(ParseMathmlChildren(h2, elem.children, Len(h2)), sqrt, Len(h2)),
             parent, sqrt)

\* _parse_mathml_element: the heap after the call
ParseMathmlElement(h, elem, parent) ==
    LET tag == TagOf(elem) IN
    IF tag = "math" THEN ParseMathmlChildren(h, elem.children, parent)
    ELSE IF tag = "mrow" THEN Mrow(New(h, "GROUP", <<>>, <<>>, EmptyDict), elem, parent)
    ELSE IF tag = "mfrac" THEN
        MathmlPair(New(h, "FRACTION", <<>>, <<>>, EmptyDict), elem, parent,
                   "numerator", "denominator")
    ELSE IF tag = "msup" THEN
        MathmlPair(New(h, "SUPERSCRIPT", <<>>, <<>>, EmptyDict), elem, parent,
                   "base", "exponent")
    ELSE IF tag = "msub" THEN
        MathmlPair(New(h, "SUBSCRIPT", <<>>, <<>>, EmptyDict), elem, parent,
                   "base", "subscript")
    ELSE IF tag = "msqrt" THEN Msqrt(New(h, "SQRT", <<>>, <<>>, EmptyDict), elem, parent)
    ELSE IF tag = "mi" THEN
        AddNew(h, parent, "IDENTIFIER", ElementText(elem), EmptyDict)
    ELSE IF tag = "mn" THEN
        AddNew(h, parent, "NUMBER", ElementText(elem), EmptyDict)
    ELSE IF tag = "mo" THEN
        AddNew(h, parent,
               IF IsSubstring(ElementText(elem), RELATION_CHARS) THEN "RELATION" ELSE "OPERATOR",
               ElementText(elem), EmptyDict)
    ELSE IF tag = "mtext" THEN
        AddNew(h, parent, "TEXT", ElementText(elem), EmptyDict)
    ELSE ParseMathmlChildren(h, elem.children, parent)

\* The source is given as what ET.fromstring makes of the string: <<tree>>
\* for the element tree of a document, <<>> when it raises ET.ParseError.
Invalid == <<>>

\* parse_mathml: root is the last object of h1
MathmlRoot(h1, tree) ==
    [heap |-> ParseMathmlElement(h1, tree, Len(h1)), root |-> Len(h1),
     err |-> "", errpos |-> 0]

\* parse_mathml: [heap, root, err, errpos]
ParseMathml(h, mathml) ==
    IF mathml = Invalid
    THEN [heap |-> h, root |-> None, err |-> "Invalid MathML", errpos |-> 0]
    ELSE MathmlRoot(New(h, "ROOT", <<>>, <<>>, "source" :> mathml), mathml[1])

(***************************************************************************)
(* Parsing runs: parse_latex or parse_mathml on one source (or a tree the  *)
(* caller builds), then get_navigable_children on the nodes of the tree.   *)
(***************************************************************************)
\* LaTeX sources: every string of at most MaxLen fragments, ...
Fragments ==
    {<<"{">>, <<"}">>, <<"^">>, <<"_">>, <<"a">>, <<"2">>, <<"\\">>,
     <<"\\", "f", "r", "a", "c">>, <<"\\", "s", "q", "r", "t">>}

RECURSIVE Sources(_)
Sources(n) ==
    IF n = 0 THEN {<<>>}
    ELSE {<<>>} \cup {f \o s : f \in Fragments, s \in Sources(n - 1)}

Braced(x) == <<"{">> \o x \o <<"}">>
Bracketed(x) == <<"[">> \o x \o <<"]">>
FracCommand == <<"\\", "f", "r", "a", "c">>
SqrtCommand == <<"\\", "s", "q", "r", "t">>

\* ... a chain of k groups around one identifier, k up to MaxDepth, ...
RECURSIVE Nested(_)
Nested(k) == IF k = 0 THEN <<"a">> ELSE Braced(Nested(k - 1))

NestedGroups == {Nested(k) : k \in 0..MaxDepth}

\* ... a root whose optional argument is any string of at most MaxIndex
\* characters out of { } ] a, ...
IndexedRoots ==
    {SqrtCommand \o Bracketed(x) \o Braced(<<"a">>) :
        x \in SeqsUpTo({"{", "}", "]", "a"}, MaxIndex)}

\* ... and the constructs of the grammar over given arguments, two levels deep.
Atoms == {<<>>, <<"a">>, <<"2">>, <<"\\", "p", "i">>, <<"\\", "f", "o", "o">>, <<"?">>}

Constructs(args) ==
    {Braced(x) : x \in args}
    \cup {FracCommand \o Braced(x) \o Braced(y) : x \in args, y \in args}
    \cup {SqrtCommand \o Braced(x) : x \in args}
    \cup {SqrtCommand \o Bracketed(x) \o Braced(y) : x \in args, y \in args}
    \cup {<<"a", "^">> \o Braced(x) : x \in args}
    \cup {<<"a", "_">> \o Braced(x) : x \in args}
    \cup {Braced(x) \o <<"^", "2">> : x \in args}
    \cup {<<"$">> \o x \o <<" ", "+", " ">> \o y \o <<"$">> : x \in args, y \in args}

Composites == Constructs(Atoms \cup Constructs({<<"a">>, <<>>}))

LatexInputs == Sources(MaxLen) \cup NestedGroups \cup IndexedRoots \cup Composites

\* MathML sources: every element tree of at most MaxElems elements, ...
LeafElements ==
    {Element(<<"mi">>, <<"x">>, <<>>), Element(<<"{ns", "mi">>, <<" ", "x", " ">>, <<>>),
     Element(<<"mn">>, <<"2">>, <<>>), Element(<<"mo">>, <<"=">>, <<>>),
     Element(<<"mo">>, <<"+">>, <<>>), Element(<<"mo">>, NoText, <<>>),
     Element(<<"mtext">>, <<"t">>, <<>>)}

InnerTags == {"math", "mrow", "mfrac", "msup", "msub", "msqrt", "mstyle"}

RECURSIVE ElementForests(_)
RECURSIVE ElementTrees(_)
ElementForests(n) ==
    IF n = 0 THEN {<<>>}
    ELSE UNION {{<<t>> \o f : t \in ElementTrees(k), f \in ElementForests(n - k)} :
                k \in 1..n}
\* the element trees of exactly n elements
ElementTrees(n) ==
    (IF n = 1 THEN LeafElements ELSE {})
    \cup {Element(<<tag>>, NoText, f) : tag \in InnerTags, f \in ElementForests(n - 1)}

\* ... and the elements with two children, bare and below <math>.
Children == LeafElements \cup {Element(<<"mrow">>, NoText, <<x>>) : x \in LeafElements}
ElementPairs ==
    {Element(<<tag>>, NoText, <<x, y>>) : tag \in InnerTags, x \in Children, y \in Children}

MathmlInputs ==
    {<<t>> : t \in UNION {ElementTrees(n) : n \in 1..MaxElems}}
    \cup {<<t>> : t \in ElementPairs}
    \cup {<<Element(<<"math">>, NoText, <<t>>)>> : t \in ElementPairs}
    \cup {Invalid}

InitParse ==
    /\ \/ \E s \in LatexInputs : input = [format |-> "latex", source |-> s]
       \/ \E m \in MathmlInputs : input = [format |-> "mathml", source |-> m]
       \/ \E e \in NavTrees : input = [format |-> "tree", source |-> e]
    /\ pc = "ready"
    /\ error = NoError
    /\ returned = None
    /\ heap = <<>>
    /\ NavIdle
    /\ RenderIdle
    /\ CliIdle

\* What a parse call leaves: the tree, or the ParseError raised
Parsed(r) ==
    /\ heap' = r.heap
    /\ root' = r.root
    /\ error' = [message |-> r.err, position |-> r.errpos]
    /\ pc' = "done"
    /\ UNCHANGED <<input, returned, navvars, rendervars, clivars>>

\* tree = parser.parse_latex(input)
ParseLatexCall ==
    /\ pc = "ready"
    /\ input.format = "latex"
    /\ Parsed(ParseLatex(heap, input.source))

\* tree = parser.parse_mathml(input)
ParseMathmlCall ==
    /\ pc = "ready"
    /\ input.format = "mathml"
    /\ Parsed(ParseMathml(heap, input.source))

\* tree = SemanticNode(..., children=[...]): a tree built by the caller
BuildCall ==
    /\ pc = "ready"
    /\ input.format = "tree"
    /\ \E b \in {Build(heap, input.source)} :
           Parsed([heap |-> b.heap, root |-> b.id, err |-> "", errpos |-> 0])

\* [n.get_navigable_children() for n in tree.walk()], kept by node
GetNavigableChildrenCall ==
    /\ pc = "done"
    /\ root # None
    /\ returned' = [n \in DOMAIN heap |-> GetNavigableChildren(heap, n)]
    /\ pc' = "queried"
    /\ UNCHANGED <<heap, root, input, error, navvars, rendervars, clivars>>

NextParse == ParseLatexCall \/ ParseMathmlCall \/ BuildCall \/ GetNavigableChildrenCall

SpecParse == InitParse /\ [][NextParse]_vars

(***************************************************************************)
(* Serialization: to_dict and from_dict.  A dict is a function of its      *)
(* keys; a member of NodeType is denoted by its name, so `.name` reads the *)
(* name off and NodeType[name] looks the member up.                        *)
(***************************************************************************)
\* to_dict
RECURSIVE ToDict(_, _)
ToDict(h, n) ==
    [type |-> h[n].node_type,
     content |-> h[n].content,
     children |-> [i \in DOMAIN h[n].children |-> ToDict(h, h[n].children[i])],
     metadata |-> h[n].metadata,
     node_id |-> h[n].node_id,
     accessibility |-> h[n].accessibility_metadata]

\* NodeType[data["type"]]
NodeTypeByName(name) == CHOOSE t \in NodeTypes : t = name

\* data.get(key, default)
DictGet(data, key, default) == IF key \in DOMAIN data THEN data[key] ELSE default

\* The mutant: the node keeps the node_id its constructor drew.
RestoreNodeIdNever(h, node, data) == h

\* if "node_id" in data: node.node_id = data["node_id"]
RestoreNodeId(h, node, data) ==
    IF "node_id" \in DOMAIN data
    THEN [h EXCEPT ![node].node_id = data["node_id"]]
    ELSE h

\* if "accessibility" in data: node.accessibility_metadata = data["accessibility"]
RestoreAccessibility(h, node, data) ==
    IF "accessibility" \in DOMAIN data
    THEN [h EXCEPT ![node].accessibility_metadata = data["accessibility"]]
    ELSE h

RECURSIVE FromDict(_, _)
RECURSIVE FromDictChildren(_, _)
RECURSIVE FromDictRest(_, _)

\* from_dict after `node = cls(...)`: node is the last object of h2
FromDictRestore(h2, data) ==
    [heap |-> RestoreAccessibility(RestoreNodeId(h2, Len(h2), data), Len(h2), data),
     id |-> Len(h2)]

\* node = cls(node_type=..., content=..., children=..., metadata=...): kids
\* are the children, which Python builds before the call
FromDictNode(kids, data) ==
    FromDictRestore(New(kids.heap, NodeTypeByName(data["type"]),
                        DictGet(data, "content", <<>>), kids.ids,
                        DictGet(data, "metadata", EmptyDict)),
                    data)

\* from_dict: [heap, id]
FromDict(h, data) ==
    FromDictNode(FromDictChildren(h, DictGet(data, "children", <<>>)), data)

\* [cls.from_dict(c) for c in data.get("children", [])]: [heap, ids]
FromDictChildren(h, dicts) ==
    IF dicts = <<>> THEN [heap |-> h, ids |-> <<>>]
    ELSE FromDictRest(FromDict(h, Head(dicts)), Tail(dicts))

FromDictPrepend(id, rest) == [heap |-> rest.heap, ids |-> <<id>> \o rest.ids]

FromDictRest(first, dicts) ==
    FromDictPrepend(first.id, FromDictChildren(first.heap, dicts))

(***************************************************************************)
(* Serialization runs: a tree is parsed or built, the caller fills in      *)
(* accessibility metadata, then tree.to_dict() and                         *)
(* SemanticNode.from_dict(data).                                           *)
(***************************************************************************)
MaxMarks == 2        \* nodes that are given accessibility metadata

AccessibilityValues ==
    {"aria_label" :> "fraction",
     ("aria_role" :> "math") @@ ("description" :> "a over b")}

DictSources == Constructs({<<"a">>, <<>>})

InitDict ==
    /\ \/ \E s \in DictSources : input = [format |-> "latex", source |-> s]
       \/ \E e \in NavTrees : input = [format |-> "tree", source |-> e]
    /\ pc = "ready"
    /\ error = NoError
    /\ returned = None
    /\ heap = <<>>
    /\ NavIdle
    /\ RenderIdle
    /\ CliIdle

Marked(h) == {n \in DOMAIN h : h[n].accessibility_metadata # EmptyDict}

\* node.accessibility_metadata = {...} on a node of the tree
SetAccessibility ==
    /\ pc = "done"
    /\ root # None
    /\ Cardinality(Marked(heap)) < MaxMarks
    /\ \E n \in DOMAIN heap \ Marked(heap), value \in AccessibilityValues :
           heap' = [heap EXCEPT ![n].accessibility_metadata = value]
    /\ UNCHANGED <<root, navvars, parsevars, rendervars, clivars>>

\* data = tree.to_dict()
ToDictCall ==
    /\ pc = "done"
    /\ root # None
    /\ returned' = ToDict(heap, root)
    /\ pc' = "serialized"
    /\ UNCHANGED <<heap, root, input, error, navvars, rendervars, clivars>>

\* copy = SemanticNode.from_dict(data)
FromDictCall ==
    /\ pc = "serialized"
    /\ \E r \in {FromDict(heap, returned)} :
           /\ heap' = r.heap
           /\ returned' = r.id
    /\ pc' = "restored"
    /\ UNCHANGED <<root, input, error, navvars, rendervars, clivars>>

NextDict == ParseLatexCall \/ BuildCall \/ SetAccessibility \/ ToDictCall \/ FromDictCall

SpecDict == InitDict /\ [][NextDict]_vars

(***************************************************************************)
(* str methods on the characters of a node's content.                      *)
(***************************************************************************)
\* the cased characters outside ASCII that the tables hold: (upper, lower)
GREEK_CASE ==
    <<<<"U+0391", "U+03B1">>, <<"U+0392", "U+03B2">>, <<"U+0393", "U+03B3">>,
      <<"U+0394", "U+03B4">>, <<"U+0398", "U+03B8">>, <<"U+039B", "U+03BB">>,
      <<"U+039E", "U+03BE">>, <<"U+03A0", "U+03C0">>, <<"U+03A3", "U+03C3">>,
      <<"U+03A6", "U+03C6">>, <<"U+03A8", "U+03C8">>, <<"U+03A9", "U+03C9">>>>

\* char.isupper() and char.lower()
IsUpperChar(c) == IsUpper(c) \/ HasKey(GREEK_CASE, c)
Lower(c) == IF IsUpper(c) THEN LowerChar(c) ELSE Get(GREEK_CASE, c, c)

\* sep.join(parts) for str parts
RECURSIVE Join(_, _)
Join(sep, parts) ==
    IF parts = <<>> THEN ""
    ELSE IF Len(parts) = 1 THEN parts[1]
    ELSE parts[1] \o sep \o Join(sep, Tail(parts))

(***************************************************************************)
(* speech/rules.py: SpeechRuleSet and SpeechRenderer.  A member of         *)
(* SpeechStyle or VerbosityLevel is denoted by its name; its value is the  *)
(* lower-case string.  Speech text is a TLA+ string.                       *)
(***************************************************************************)
SPEECH_STYLES ==
    <<<<"VERBOSE", "verbose">>, <<"CONCISE", "concise">>, <<"SUPERBRIEF", "superbrief">>>>
VERBOSITY_LEVELS ==
    <<<<"VERBOSE", "verbose">>, <<"CONCISE", "concise">>, <<"SUPERBRIEF", "superbrief">>>>

\* Enum(value): the member of the enumeration with this value
ByValue(members, value) ==
    members[CHOOSE i \in DOMAIN members : members[i][2] = value][1]

\* SpeechRuleSet.PHRASES
PHRASES ==
    <<<<"fraction_start", <<<<"VERBOSE", "start fraction">>, <<"CONCISE", "">>, <<"SUPERBRIEF", "frac">>>>>>,
      <<"fraction_over", <<<<"VERBOSE", "over">>, <<"CONCISE", "over">>, <<"SUPERBRIEF", "">>>>>>,
      <<"fraction_end", <<<<"VERBOSE", "end fraction">>, <<"CONCISE", "">>, <<"SUPERBRIEF", "">>>>>>,
      <<"superscript", <<<<"VERBOSE", "to the power of">>, <<"CONCISE", "to the">>, <<"SUPERBRIEF", "exp">>>>>>,
      <<"subscript", <<<<"VERBOSE", "subscript">>, <<"CONCISE", "sub">>, <<"SUPERBRIEF", "sub">>>>>>,
      <<"sqrt", <<<<"VERBOSE", "square root of">>, <<"CONCISE", "square root of">>, <<"SUPERBRIEF", "sqrt">>>>>>,
      <<"sqrt_end", <<<<"VERBOSE", "end root">>, <<"CONCISE", "">>, <<"SUPERBRIEF", "">>>>>>,
      <<"nroot", <<<<"VERBOSE", "root of">>, <<"CONCISE", "root">>, <<"SUPERBRIEF", "root">>>>>>,
      <<"sum", <<<<"VERBOSE", "summation of">>, <<"CONCISE", "sum of">>, <<"SUPERBRIEF", "sum">>>>>>,
      <<"integral", <<<<"VERBOSE", "integral of">>, <<"CONCISE", "integral of">>, <<"SUPERBRIEF", "int">>>>>>>>

\* SpeechRuleSet.OPERATOR_NAMES
OPERATOR_NAMES ==
    <<<<<<"+">>, "plus">>, <<<<"-">>, "minus">>, <<<<"U+2212">>, "minus">>,
      <<<<"U+00D7">>, "times">>, <<<<"U+00B7">>, "times">>, <<<<"U+00F7">>, "divided by">>,
      <<<<"U+00B1">>, "plus or minus">>, <<<<"U+2213">>, "minus or plus">>, <<<<"(">>, "open paren">>,
      <<<<")">>, "close paren">>, <<<<"[">>, "open bracket">>, <<<<"]">>, "close bracket">>>>

\* SpeechRuleSet.RELATION_NAMES
RELATION_NAMES ==
    <<<<<<"=">>, "equals">>, <<<<"<">>, "less than">>,
      <<<<">">>, "greater than">>, <<<<"U+2264">>, "less than or equal to">>,
      <<<<"U+2265">>, "greater than or equal to">>, <<<<"U+2260">>, "not equal to">>,
      <<<<"U+2248">>, "approximately equal to">>, <<<<"U+2261">>, "is identical to">>>>

\* SpeechRuleSet.NUMBER_NAMES
NUMBER_NAMES ==
    <<<<<<"U+221E">>, "infinity">>>>

\* SpeechRuleSet.IDENTIFIER_NAMES
IDENTIFIER_NAMES ==
    <<<<<<"U+03B1">>, "alpha">>, <<<<"U+03B2">>, "beta">>, <<<<"U+03B3">>, "gamma">>,
      <<<<"U+03B4">>, "delta">>, <<<<"U+03B5">>, "epsilon">>, <<<<"U+03B6">>, "zeta">>,
      <<<<"U+03B7">>, "eta">>, <<<<"U+03B8">>, "theta">>, <<<<"U+03B9">>, "iota">>,
      <<<<"U+03BA">>, "kappa">>, <<<<"U+03BB">>, "lambda">>, <<<<"U+03BC">>, "mu">>,
      <<<<"U+03BD">>, "nu">>, <<<<"U+03BE">>, "xi">>, <<<<"U+03C0">>, "pi">>,
      <<<<"U+03C1">>, "rho">>, <<<<"U+03C3">>, "sigma">>, <<<<"U+03C4">>, "tau">>,
      <<<<"U+03C5">>, "upsilon">>, <<<<"U+03C6">>, "phi">>, <<<<"U+03C7">>, "chi">>,
      <<<<"U+03C8">>, "psi">>, <<<<"U+03C9">>, "omega">>, <<<<"U+0391">>, "capital alpha">>,
      <<<<"U+0392">>, "capital beta">>, <<<<"U+0393">>, "capital gamma">>, <<<<"U+0394">>, "capital delta">>,
      <<<<"U+0398">>, "capital theta">>, <<<<"U+039B">>, "capital lambda">>, <<<<"U+039E">>, "capital xi">>,
      <<<<"U+03A0">>, "capital pi">>, <<<<"U+03A3">>, "capital sigma">>, <<<<"U+03A6">>, "capital phi">>,
      <<<<"U+03A8">>, "capital psi">>, <<<<"U+03A9">>, "capital omega">>, <<<<"U+221E">>, "infinity">>>>

\* get_phrase
GetPhrase(key, verbosity) ==
    Get(Get(PHRASES, key, <<>>), verbosity, Get(Get(PHRASES, key, <<>>), "VERBOSE", ""))

\* _get_verbosity
GetVerbosity(cfg) == ByValue(VERBOSITY_LEVELS, Get(SPEECH_STYLES, cfg.speech.style, ""))

\* SpeechRenderer.__init__: the verbosity is read from the configuration once
SpeechRenderer(cfg) == [verbosity |-> GetVerbosity(cfg)]

NonEmpty(p) == p # ""

\* The mutant: every part is joined, the empty ones too.
JoinPartsUnfiltered(parts) == Join(" ", parts)

\* _join_parts
JoinParts(parts) == Join(" ", SelectSeq(parts, NonEmpty))

\* `if phrase: parts.append(phrase)`
IfNonEmpty(phrase) == IF phrase # "" THEN <<phrase>> ELSE <<>>

RECURSIVE SpeechRender(_, _, _)

\* [self.render(c) for c in node.children]
SpeechChildren(h, node, v) ==
    [i \in DOMAIN h[node].children |-> SpeechRender(h, h[node].children[i], v)]

\* `if len(node.children) > i: parts.append(self.render(node.children[i]))`
SpeechChild(h, node, i, v) ==
    IF Len(h[node].children) > i
    THEN <<SpeechRender(h, h[node].children[i + 1], v)>>
    ELSE <<>>

\* _render_fraction
SpeechRenderFraction(h, node, v) ==
    JoinParts(IfNonEmpty(GetPhrase("fraction_start", v))
              \o SpeechChild(h, node, 0, v)
              \o <<GetPhrase("fraction_over", v)>>
              \o SpeechChild(h, node, 1, v)
              \o IfNonEmpty(GetPhrase("fraction_end", v)))

\* _render_superscript, _render_subscript and _render_nroot, which differ in
\* the phrase only
SpeechRenderScript(h, node, v, key) ==
    JoinParts(SpeechChild(h, node, 0, v)
              \o <<GetPhrase(key, v)>>
              \o SpeechChild(h, node, 1, v))

\* _render_sqrt
SpeechRenderSqrt(h, node, v) ==
    JoinParts(<<GetPhrase("sqrt", v)>>
              \o SpeechChild(h, node, 0, v)
              \o IfNonEmpty(GetPhrase("sqrt_end", v)))

\* _render_sum and _render_integral
SpeechRenderBig(h, node, v, key) ==
    JoinParts(<<GetPhrase(key, v)>> \o SpeechChildren(h, node, v))

\* The mutant: the content is never looked at.
SpeechRenderDefaultChildrenOnly(h, node, v) ==
    JoinParts(SpeechChildren(h, node, v))

\* _render_default
SpeechRenderDefault(h, node, v) ==
    IF h[node].content # <<>> THEN Str(h[node].content)
    ELSE JoinParts(SpeechChildren(h, node, v))

\* render: the method named after the node type, or _render_default
SpeechRender(h, node, v) ==
    CASE h[node].node_type \in {"ROOT", "GROUP"} -> JoinParts(SpeechChildren(h, node, v))
      [] h[node].node_type = "NUMBER" ->
            Get(NUMBER_NAMES, h[node].content, Str(h[node].content))
      [] h[node].node_type = "IDENTIFIER" ->
            Get(IDENTIFIER_NAMES, h[node].content, Str(h[node].content))
      [] h[node].node_type = "OPERATOR" ->
            Get(OPERATOR_NAMES, h[node].content, Str(h[node].content))
      [] h[node].node_type = "RELATION" ->
            Get(RELATION_NAMES, h[node].content, Str(h[node].content))
      [] h[node].node_type \in {"FUNCTION", "TEXT"} -> Str(h[node].content)
      [] h[node].node_type = "FRACTION" -> SpeechRenderFraction(h, node, v)
      [] h[node].node_type = "SUPERSCRIPT" -> SpeechRenderScript(h, node, v, "superscript")
      [] h[node].node_type = "SUBSCRIPT" -> SpeechRenderScript(h, node, v, "subscript")
      [] h[node].node_type = "SQRT" -> SpeechRenderSqrt(h, node, v)
      [] h[node].node_type = "NROOT" -> SpeechRenderScript(h, node, v, "nroot")
      [] h[node].node_type = "SUM" -> SpeechRenderBig(h, node, v, "sum")
      [] h[node].node_type = "INTEGRAL" -> SpeechRenderBig(h, node, v, "integral")
      [] OTHER -> SpeechRenderDefault(h, node, v)

(***************************************************************************)
(* braille/nemeth.py: NemethConverter.  Braille text is a sequence of       *)
(* characters.                                                             *)
(***************************************************************************)
\* NemethConverter.DIGITS
NEMETH_DIGITS ==
    <<<<"0", <<"U+2834">>>>, <<"1", <<"U+2802">>>>, <<"2", <<"U+2806">>>>, <<"3", <<"U+2812">>>>, <<"4", <<"U+2832">>>>,
      <<"5", <<"U+2822">>>>, <<"6", <<"U+2816">>>>, <<"7", <<"U+2836">>>>, <<"8", <<"U+2826">>>>, <<"9", <<"U+2814">>>>>>

\* NemethConverter.LETTERS
NEMETH_LETTERS ==
    <<<<"a", <<"U+2801">>>>, <<"b", <<"U+2803">>>>, <<"c", <<"U+2809">>>>, <<"d", <<"U+2819">>>>, <<"e", <<"U+2811">>>>,
      <<"f", <<"U+280B">>>>, <<"g", <<"U+281B">>>>, <<"h", <<"U+2813">>>>, <<"i", <<"U+280A">>>>, <<"j", <<"U+281A">>>>,
      <<"k", <<"U+2805">>>>, <<"l", <<"U+2807">>>>, <<"m", <<"U+280D">>>>, <<"n", <<"U+281D">>>>, <<"o", <<"U+2815">>>>,
      <<"p", <<"U+280F">>>>, <<"q", <<"U+281F">>>>, <<"r", <<"U+2817">>>>, <<"s", <<"U+280E">>>>, <<"t", <<"U+281E">>>>,
      <<"u", <<"U+2825">>>>, <<"v", <<"U+2827">>>>, <<"w", <<"U+283A">>>>, <<"x", <<"U+282D">>>>, <<"y", <<"U+283D">>>>,
      <<"z", <<"U+2835">>>>>>

\* NemethConverter.GREEK
NEMETH_GREEK ==
    <<<<<<"U+03B1">>, <<"U+2828", "U+2801">>>>, <<<<"U+03B2">>, <<"U+2828", "U+2803">>>>,
      <<<<"U+03B3">>, <<"U+2828", "U+281B">>>>, <<<<"U+03B4">>, <<"U+2828", "U+2819">>>>,
      <<<<"U+03B5">>, <<"U+2828", "U+2811">>>>, <<<<"U+03B6">>, <<"U+2828", "U+2835">>>>,
      <<<<"U+03B7">>, <<"U+2828", "U+2831">>>>, <<<<"U+03B8">>, <<"U+2828", "U+2839">>>>,
      <<<<"U+03B9">>, <<"U+2828", "U+280A">>>>, <<<<"U+03BA">>, <<"U+2828", "U+2805">>>>,
      <<<<"U+03BB">>, <<"U+2828", "U+2807">>>>, <<<<"U+03BC">>, <<"U+2828", "U+280D">>>>,
      <<<<"U+03BD">>, <<"U+2828", "U+281D">>>>, <<<<"U+03BE">>, <<"U+2828", "U+282D">>>>,
      <<<<"U+03C0">>, <<"U+2828", "U+280F">>>>, <<<<"U+03C1">>, <<"U+2828", "U+2817">>>>,
      <<<<"U+03C3">>, <<"U+2828", "U+280E">>>>, <<<<"U+03C4">>, <<"U+2828", "U+281E">>>>,
      <<<<"U+03C5">>, <<"U+2828", "U+2825">>>>, <<<<"U+03C6">>, <<"U+2828", "U+280B">>>>,
      <<<<"U+03C7">>, <<"U+2828", "U+282F">>>>, <<<<"U+03C8">>, <<"U+2828", "U+283D">>>>,
      <<<<"U+03C9">>, <<"U+2828", "U+283A">>>>, <<<<"U+0391">>, <<"U+2820", "U+2828", "U+2801">>>>,
      <<<<"U+0392">>, <<"U+2820", "U+2828", "U+2803">>>>, <<<<"U+0393">>, <<"U+2820", "U+2828", "U+281B">>>>,
      <<<<"U+0394">>, <<"U+2820", "U+2828", "U+2819">>>>, <<<<"U+0398">>, <<"U+2820", "U+2828", "U+2839">>>>,
      <<<<"U+039B">>, <<"U+2820", "U+2828", "U+2807">>>>, <<<<"U+03A0">>, <<"U+2820", "U+2828", "U+280F">>>>,
      <<<<"U+03A3">>, <<"U+2820", "U+2828", "U+280E">>>>, <<<<"U+03A6">>, <<"U+2820", "U+2828", "U+280B">>>>,
      <<<<"U+03A8">>, <<"U+2820", "U+2828", "U+283D">>>>, <<<<"U+03A9">>, <<"U+2820", "U+2828", "U+283A">>>>>>

\* NemethConverter.OPERATORS
NEMETH_OPERATORS ==
    <<<<<<"+">>, <<"U+282C">>>>, <<<<"-">>, <<"U+2824">>>>, <<<<"U+2212">>, <<"U+2824">>>>,
      <<<<"U+00D7">>, <<"U+2821">>>>, <<<<"U+00B7">>, <<"U+2821">>>>, <<<<"U+00F7">>, <<"U+280C">>>>,
      <<<<"U+00B1">>, <<"U+282C", "U+2824">>>>, <<<<"(">>, <<"U+2837">>>>, <<<<")">>, <<"U+283E">>>>,
      <<<<"[">>, <<"U+2808", "U+2837">>>>, <<<<"]">>, <<"U+2808", "U+283E">>>>>>

\* NemethConverter.RELATIONS
NEMETH_RELATIONS ==
    <<<<<<"=">>, <<"U+2800", "U+283F", "U+2800">>>>, <<<<"<">>, <<"U+2800", "U+282A", "U+2800">>>>,
      <<<<">">>, <<"U+2800", "U+283B", "U+2800">>>>, <<<<"U+2264">>, <<"U+2800", "U+282A", "U+283F", "U+2800">>>>,
      <<<<"U+2265">>, <<"U+2800", "U+283B", "U+283F", "U+2800">>>>, <<<<"U+2260">>, <<"U+2800", "U+283F", "U+2808", "U+2831", "U+2800">>>>,
      <<<<"U+2248">>, <<"U+2800", "U+2808", "U+283F", "U+2800">>>>>>

\* NemethConverter: the indicators
NEMETH_NUMERIC_INDICATOR == <<"U+283C">>
NEMETH_FRACTION_OPEN == <<"U+2839">>
NEMETH_FRACTION_LINE == <<"U+280C">>
NEMETH_FRACTION_CLOSE == <<"U+283C">>
NEMETH_SUPERSCRIPT_IND == <<"U+2818">>
NEMETH_SUBSCRIPT_IND == <<"U+2830">>
NEMETH_SQRT_OPEN == <<"U+281C">>
NEMETH_SQRT_CLOSE == <<"U+283B">>

\* the characters of content.lower(), each replaced by its LETTERS cell if
\* it has one: the loop of _render_identifier and _render_function
NemethLetters(content) ==
    Concat([i \in DOMAIN content |->
        Get(NEMETH_LETTERS, Lower(content[i]), <<Lower(content[i])>>)])

\* _render_number: one character
NemethNumberChar(c) ==
    IF HasKey(NEMETH_DIGITS, c) THEN Get(NEMETH_DIGITS, c, <<>>)
    ELSE IF c = "." THEN <<"U+2828">>
    ELSE <<c>>

\* _render_number
NemethRenderNumber(content) ==
    NEMETH_NUMERIC_INDICATOR
    \o Concat([i \in DOMAIN content |-> NemethNumberChar(content[i])])

\* _render_identifier
NemethRenderIdentifier(content) ==
    IF HasKey(NEMETH_GREEK, content) THEN Get(NEMETH_GREEK, content, <<>>)
    ELSE IF content = <<"U+221E">> THEN <<"U+2820", "U+283F">>
    ELSE IF Len(content) = 1 /\ HasKey(NEMETH_LETTERS, Lower(content[1]))
    THEN IF IsUpperChar(content[1])
         THEN <<"U+2820">> \o Get(NEMETH_LETTERS, Lower(content[1]), <<>>)
         ELSE Get(NEMETH_LETTERS, Lower(content[1]), <<>>)
    ELSE NemethLetters(content)

\* _render_text: one character of content.lower()
NemethTextChar(c) ==
    IF HasKey(NEMETH_LETTERS, c) THEN Get(NEMETH_LETTERS, c, <<>>)
    ELSE IF HasKey(NEMETH_DIGITS, c) THEN Get(NEMETH_DIGITS, c, <<>>)
    ELSE IF c = " " THEN <<"U+2800">>
    ELSE <<c>>

\* _render_text
NemethRenderText(content) ==
    Concat([i \in DOMAIN content |-> NemethTextChar(Lower(content[i]))])

RECURSIVE NemethRender(_, _)

\* "".join(self.render(c) for c in node.children)
NemethChildren(h, node) ==
    Concat([i \in DOMAIN h[node].children |-> NemethRender(h, h[node].children[i])])

\* The mutant: the operands are taken in the opposite order.
NemethChildSwapped(h, node, i) ==
    IF Len(h[node].children) > 1 - i
    THEN NemethRender(h, h[node].children[2 - i])
    ELSE <<>>

\* `if len(node.children) > i: result += self.render(node.children[i])`
NemethChild(h, node, i) ==
    IF Len(h[node].children) > i THEN NemethRender(h, h[node].children[i + 1]) ELSE <<>>

\* _render_default: the content is rendered as that of a Text node
NemethRenderDefault(h, node) ==
    IF h[node].content # <<>> THEN NemethRenderText(h[node].content)
    ELSE NemethChildren(h, node)

\* NemethConverter.render
NemethRender(h, node) ==
    CASE h[node].node_type \in {"ROOT", "GROUP"} -> NemethChildren(h, node)
      [] h[node].node_type = "NUMBER" -> NemethRenderNumber(h[node].content)
      [] h[node].node_type = "IDENTIFIER" -> NemethRenderIdentifier(h[node].content)
      [] h[node].node_type = "OPERATOR" ->
            Get(NEMETH_OPERATORS, h[node].content, h[node].content)
      [] h[node].node_type = "RELATION" ->
            Get(NEMETH_RELATIONS, h[node].content, h[node].content)
      [] h[node].node_type = "FRACTION" ->
            NEMETH_FRACTION_OPEN \o NemethChild(h, node, 0) \o NEMETH_FRACTION_LINE
            \o NemethChild(h, node, 1) \o NEMETH_FRACTION_CLOSE
      [] h[node].node_type = "SUPERSCRIPT" ->
            NemethChild(h, node, 0) \o NEMETH_SUPERSCRIPT_IND \o NemethChild(h, node, 1)
      [] h[node].node_type = "SUBSCRIPT" ->
            NemethChild(h, node, 0) \o NEMETH_SUBSCRIPT_IND \o NemethChild(h, node, 1)
      [] h[node].node_type = "SQRT" ->
            NEMETH_SQRT_OPEN \o NemethChild(h, node, 0) \o NEMETH_SQRT_CLOSE
      [] h[node].node_type = "NROOT" ->
            NemethChild(h, node, 0) \o NEMETH_SQRT_OPEN \o NemethChild(h, node, 1)
            \o NEMETH_SQRT_CLOSE
      [] h[node].node_type = "SUM" ->
            <<"U+2820", "U+2828", "U+280E">> \o NemethChildren(h, node)
      [] h[node].node_type = "INTEGRAL" -> <<"U+282E">> \o NemethChildren(h, node)
      [] h[node].node_type = "FUNCTION" -> NemethLetters(h[node].content)
      [] h[node].node_type = "TEXT" -> NemethRenderText(h[node].content)
      [] OTHER -> NemethRenderDefault(h, node)

(***************************************************************************)
(* braille/ueb.py: UEBConverter.                                           *)
(***************************************************************************)
\* UEBConverter.DIGITS
UEB_DIGITS ==
    <<<<"0", <<"U+281A">>>>, <<"1", <<"U+2801">>>>, <<"2", <<"U+2803">>>>, <<"3", <<"U+2809">>>>, <<"4", <<"U+2819">>>>,
      <<"5", <<"U+2811">>>>, <<"6", <<"U+280B">>>>, <<"7", <<"U+281B">>>>, <<"8", <<"U+2813">>>>, <<"9", <<"U+280A">>>>>>

\* UEBConverter.LETTERS
UEB_LETTERS ==
    <<<<"a", <<"U+2801">>>>, <<"b", <<"U+2803">>>>, <<"c", <<"U+2809">>>>, <<"d", <<"U+2819">>>>, <<"e", <<"U+2811">>>>,
      <<"f", <<"U+280B">>>>, <<"g", <<"U+281B">>>>, <<"h", <<"U+2813">>>>, <<"i", <<"U+280A">>>>, <<"j", <<"U+281A">>>>,
      <<"k", <<"U+2805">>>>, <<"l", <<"U+2807">>>>, <<"m", <<"U+280D">>>>, <<"n", <<"U+281D">>>>, <<"o", <<"U+2815">>>>,
      <<"p", <<"U+280F">>>>, <<"q", <<"U+281F">>>>, <<"r", <<"U+2817">>>>, <<"s", <<"U+280E">>>>, <<"t", <<"U+281E">>>>,
      <<"u", <<"U+2825">>>>, <<"v", <<"U+2827">>>>, <<"w", <<"U+283A">>>>, <<"x", <<"U+282D">>>>, <<"y", <<"U+283D">>>>,
      <<"z", <<"U+2835">>>>>>

\* UEBConverter.OPERATORS
UEB_OPERATORS ==
    <<<<<<"+">>, <<"U+282C">>>>, <<<<"-">>, <<"U+2824">>>>, <<<<"U+2212">>, <<"U+2824">>>>,
      <<<<"U+00D7">>, <<"U+2810", "U+2826">>>>, <<<<"U+00B7">>, <<"U+2810", "U+2832">>>>, <<<<"U+00F7">>, <<"U+2810", "U+280C">>>>,
      <<<<"(">>, <<"U+2810", "U+2823">>>>, <<<<")">>, <<"U+2810", "U+281C">>>>, <<<<"[">>, <<"U+2828", "U+2823">>>>,
      <<<<"]">>, <<"U+2828", "U+281C">>>>>>

\* UEBConverter.RELATIONS
UEB_RELATIONS ==
    <<<<<<"=">>, <<"U+2810", "U+2836">>>>, <<<<"<">>, <<"U+2810", "U+282A">>>>,
      <<<<">">>, <<"U+2810", "U+2815">>>>, <<<<"U+2264">>, <<"U+2810", "U+282A", "U+2836">>>>,
      <<<<"U+2265">>, <<"U+2810", "U+2815", "U+2836">>>>, <<<<"U+2260">>, <<"U+2810", "U+2836", "U+2808", "U+2831">>>>>>

\* UEBConverter: the indicators
UEB_NUMERIC_INDICATOR == <<"U+283C">>
UEB_CAPITAL_INDICATOR == <<"U+2820">>
UEB_FRACTION_OPEN == <<"U+2837">>
UEB_FRACTION_LINE == <<"U+280C">>
UEB_FRACTION_CLOSE == <<"U+283E">>

\* _render_number: one character
UebNumberChar(c) ==
    IF HasKey(UEB_DIGITS, c) THEN Get(UEB_DIGITS, c, <<>>)
    ELSE IF c = "." THEN <<"U+2832">>
    ELSE <<c>>

\* _render_number
UebRenderNumber(content) ==
    UEB_NUMERIC_INDICATOR \o Concat([i \in DOMAIN content |-> UebNumberChar(content[i])])

\* _render_identifier: one character
UebIdentifierChar(c) ==
    IF IsUpperChar(c) /\ HasKey(UEB_LETTERS, Lower(c))
    THEN UEB_CAPITAL_INDICATOR \o Get(UEB_LETTERS, Lower(c), <<>>)
    ELSE IF HasKey(UEB_LETTERS, Lower(c)) THEN Get(UEB_LETTERS, Lower(c), <<>>)
    ELSE <<c>>

\* _render_identifier
UebRenderIdentifier(content) ==
    Concat([i \in DOMAIN content |-> UebIdentifierChar(content[i])])

\* _render_text: one character
UebTextChar(c) ==
    IF IsUpperChar(c) /\ HasKey(UEB_LETTERS, Lower(c))
    THEN UEB_CAPITAL_INDICATOR \o Get(UEB_LETTERS, Lower(c), <<>>)
    ELSE IF HasKey(UEB_LETTERS, Lower(c)) THEN Get(UEB_LETTERS, Lower(c), <<>>)
    ELSE IF HasKey(UEB_DIGITS, c) THEN Get(UEB_DIGITS, c, <<>>)
    ELSE IF c = " " THEN <<"U+2800">>
    ELSE <<c>>

\* _render_text
UebRenderText(content) ==
    Concat([i \in DOMAIN content |-> UebTextChar(content[i])])

\* _render_function
UebRenderFunction(content) ==
    Concat([i \in DOMAIN content |->
        Get(UEB_LETTERS, Lower(content[i]), <<Lower(content[i])>>)])

RECURSIVE UebRender(_, _)

\* "".join(self.render(c) for c in node.children)
UebChildren(h, node) ==
    Concat([i \in DOMAIN h[node].children |-> UebRender(h, h[node].children[i])])

\* `if len(node.children) > i: result += self.render(node.children[i])`
UebChild(h, node, i) ==
    IF Len(h[node].children) > i THEN UebRender(h, h[node].children[i + 1]) ELSE <<>>

\* _render_default: the content is rendered as that of a Text node
UebRenderDefault(h, node) ==
    IF h[node].content # <<>> THEN UebRenderText(h[node].content)
    ELSE UebChildren(h, node)

\* UEBConverter.render
UebRender(h, node) ==
    CASE h[node].node_type \in {"ROOT", "GROUP"} -> UebChildren(h, node)
      [] h[node].node_type = "NUMBER" -> UebRenderNumber(h[node].content)
      [] h[node].node_type = "IDENTIFIER" -> UebRenderIdentifier(h[node].content)
      [] h[node].node_type = "OPERATOR" ->
            Get(UEB_OPERATORS, h[node].content, h[node].content)
      [] h[node].node_type = "RELATION" ->
            Get(UEB_RELATIONS, h[node].content, h[node].content)
      [] h[node].node_type = "FRACTION" ->
            UEB_FRACTION_OPEN \o UebChild(h, node, 0) \o UEB_FRACTION_LINE
            \o UebChild(h, node, 1) \o UEB_FRACTION_CLOSE
      [] h[node].node_type = "SUPERSCRIPT" ->
            UebChild(h, node, 0) \o <<"U+2814">> \o UebChild(h, node, 1)
      [] h[node].node_type = "SUBSCRIPT" ->
            UebChild(h, node, 0) \o <<"U+2822">> \o UebChild(h, node, 1)
      [] h[node].node_type = "SQRT" ->
            <<"U+2829">> \o UebChild(h, node, 0) \o <<"U+2831">>
      [] h[node].node_type = "FUNCTION" -> UebRenderFunction(h[node].content)
      [] h[node].node_type = "TEXT" -> UebRenderText(h[node].content)
      [] OTHER -> UebRenderDefault(h, node)

(***************************************************************************)
(* core/renderer.py and reader.py: MathRenderer and MathReader.            *)
(***************************************************************************)
\* MathRenderer.to_speech once self._speech_renderer is set
ToSpeechWith(rend, h, node) ==
    [renderer |-> rend, text |-> SpeechRender(h, node, rend[1].verbosity)]

\* MathRenderer.to_speech: the SpeechRenderer is created on the first call
\* and kept; [renderer, text]
ToSpeech(rend, cfg, h, node) ==
    ToSpeechWith(IF rend = <<>> THEN <<SpeechRenderer(cfg)>> ELSE rend, h, node)

\* MathRenderer.to_braille: a new converter at every call
ToBraille(h, node, notation) ==
    IF notation = "nemeth" THEN NemethRender(h, node) ELSE UebRender(h, node)

\* MathParser.parse: the stripped source goes to parse_mathml when it starts
\* with "<math" or "<?xml" (a source of format "mathml", given as what
\* ET.fromstring makes of it) and to parse_latex otherwise
Parse(h, in) ==
    IF in.format = "mathml" THEN ParseMathml(h, in.source)
    ELSE ParseLatex(h, Strip(in.source, Whitespace))

\* process_expression, the branch that writes speech, Nemeth and UEB: what
\* reader.to_braille(expression, "ueb") adds to the two texts before it
ProcessedBraille(sp, nemeth, p3) ==
    [renderer |-> sp.renderer, ok |-> TRUE, speech |-> sp.text, nemeth |-> nemeth,
     ueb |-> ToBraille(p3.heap, p3.root, "ueb")]

\* ... reader.to_braille(expression, "nemeth") on the tree of its own parse p2
ProcessedSpeech(sp, p2, in) ==
    ProcessedBraille(sp, ToBraille(p2.heap, p2.root, "nemeth"), Parse(p2.heap, in))

\* ... reader.to_speech(expression) on the tree of its own parse p1; a
\* ParseError ends the call with no output
Processed(p1, rend, cfg, in) ==
    IF p1.err # ""
    THEN [renderer |-> rend, ok |-> FALSE, speech |-> "", nemeth |-> <<>>, ueb |-> <<>>]
    ELSE ProcessedSpeech(ToSpeech(rend, cfg, p1.heap, p1.root), Parse(p1.heap, in), in)

\* process_expression on a reader whose MathRenderer holds rend: [renderer,
\* ok, speech, nemeth, ueb].  The trees are local to the reader's calls, so
\* they start from an empty heap and nothing of them is left afterwards; the
\* "structure" entry of the output, which holds no rendered text, is left out
ProcessExpression(rend, cfg, in) == Processed(Parse(<<>>, in), rend, cfg, in)

(***************************************************************************)
(* Speech runs: a tree is parsed or built, then a SpeechRenderer made for  *)
(* the configuration renders every node of it.                             *)
(***************************************************************************)
SpeechStyleNames == {SPEECH_STYLES[i][1] : i \in DOMAIN SPEECH_STYLES}

\* Config(speech=SpeechConfig(style=...))
Configs == {[Config EXCEPT !.speech.style = s] : s \in SpeechStyleNames}

SpeechLeaves ==
    {Expr("IDENTIFIER", <<"a">>, <<>>), Expr("NUMBER", <<"2">>, <<>>),
     Expr("GROUP", <<>>, <<>>), Expr("TEXT", <<" ">>, <<>>)}

\* fractions of up to MaxKids + 1 children, fractions of fractions
SpeechTrees == {Expr("FRACTION", <<>>, k) : k \in SeqsUpTo(SpeechLeaves, MaxKids + 1)}

SpeechSources ==
    Constructs(Atoms)
    \cup {FracCommand \o Braced(x) \o Braced(y) :
            x \in Constructs({<<"a">>}), y \in Constructs({<<"a">>})}

SpeechElements == {t \in ElementPairs : TagOf(t) = "mfrac"}

InitSpeech ==
    /\ \/ \E s \in SpeechSources : input = [format |-> "latex", source |-> s]
       \/ \E t \in SpeechElements : input = [format |-> "mathml", source |-> <<t>>]
       \/ \E e \in SpeechTrees : input = [format |-> "tree", source |-> e]
    /\ pc = "ready"
    /\ error = NoError
    /\ returned = None
    /\ heap = <<>>
    /\ NavIdle
    /\ config \in Configs
    /\ renderer = <<>>
    /\ runs = {}
    /\ CliIdle

\* r = SpeechRenderer(config); {n: r.render(n) for n in tree.walk()}
RenderSpeechCall ==
    /\ pc = "done"
    /\ root # None
    /\ \E r \in {SpeechRenderer(config)} :
           /\ renderer' = <<r>>
           /\ returned' = [n \in DOMAIN heap |-> SpeechRender(heap, n, r.verbosity)]
    /\ pc' = "rendered"
    /\ UNCHANGED <<heap, root, input, error, navvars, config, runs, clivars>>

NextSpeech == ParseLatexCall \/ ParseMathmlCall \/ BuildCall \/ RenderSpeechCall

SpecSpeech == InitSpeech /\ [][NextSpeech]_vars

(***************************************************************************)
(* Reader runs: expressions are processed by a reader that is kept, and by *)
(* readers made for the occasion, all on one Config object, whose style    *)
(* changes in between.                                                     *)
(***************************************************************************)
MaxRuns == 3         \* distinct outputs kept in runs

\* x^2 is spoken differently at each verbosity; "{" raises ParseError
RenderSources == {<<"x", "^", "2">>, <<"{">>}

InitRender ==
    /\ heap = <<>>
    /\ NavIdle
    /\ ParseIdle
    /\ config \in Configs
    /\ renderer = <<>>
    /\ runs = {}
    /\ CliIdle

\* what a run leaves in runs: who processed which source under which style
\* of the configuration, and the texts written
Run(instance, source, cfg, r) ==
    [instance |-> instance, source |-> source, style |-> cfg.speech.style,
     ok |-> r.ok, speech |-> r.speech, nemeth |-> r.nemeth, ueb |-> r.ueb]

\* process_expression returned r and run is what it wrote; only the reader
\* that is kept keeps its MathRenderer
ProcessedBy(instance, r, run) ==
    /\ Cardinality(runs \cup {run}) <= MaxRuns
    /\ runs' = runs \cup {run}
    /\ renderer' = IF instance = "reused" THEN r.renderer ELSE renderer
    /\ UNCHANGED <<heap, root, navvars, parsevars, config, clivars>>

\* process_expression(reader, expression, ...) on the reader that is kept
ProcessReused ==
    \E s \in RenderSources :
        \E r \in {ProcessExpression(renderer, config, [format |-> "latex", source |-> s])} :
            \E run \in {Run("reused", s, config, r)} : ProcessedBy("reused", r, run)

\* process_expression(MathReader(config), expression, ...)
ProcessFresh ==
    \E s \in RenderSources :
        \E r \in {ProcessExpression(<<>>, config, [format |-> "latex", source |-> s])} :
            \E run \in {Run("fresh", s, config, r)} : ProcessedBy("fresh", r, run)

\* config.speech.style = SpeechStyle(...): by the owner of the Config, or by
\* set_verbosity of another reader that was given the same Config
SetStyle ==
    /\ \E s \in SpeechStyleNames \ {config.speech.style} :
           config' = [config EXCEPT !.speech.style = s]
    /\ UNCHANGED <<heap, root, navvars, parsevars, renderer, runs, clivars>>

\* reader.set_verbosity(level) on the reader that is kept: the style is set
\* and the MathRenderer is replaced by a new one
SetVerbosity ==
    /\ \E level \in {VERBOSITY_LEVELS[i][2] : i \in DOMAIN VERBOSITY_LEVELS} :
           config' = [config EXCEPT !.speech.style =
                         ByValue(SPEECH_STYLES,
                                 Get(VERBOSITY_LEVELS, ByValue(VERBOSITY_LEVELS, level), ""))]
    /\ renderer' = <<>>
    /\ UNCHANGED <<heap, root, navvars, parsevars, runs, clivars>>

NextRender == ProcessReused \/ ProcessFresh \/ SetStyle \/ SetVerbosity

SpecRender == InitRender /\ [][NextRender]_vars

(***************************************************************************)
(* Render runs: a tree of any node types is built, then a MathRenderer     *)
(* renders every node of it to speech, Nemeth and UEB.                     *)
(***************************************************************************)
RenderLeaves ==
    {Expr("IDENTIFIER", <<"a">>, <<>>), Expr("NUMBER", <<"2">>, <<>>),
     Expr("GROUP", <<>>, <<>>),
     Expr("MATRIX_ROW", <<>>, <<Expr("IDENTIFIER", <<"a">>, <<>>),
                                 Expr("SPACE", <<" ">>, <<>>)>>)}

\* a node of every type, with and without content, over up to MaxKids children
RenderTrees ==
    {Expr(t, c, k) : t \in NodeTypes, c \in {<<>>, <<"x", "Y", "1">>},
                     k \in SeqsUpTo(RenderLeaves, MaxKids)}

InitRenderTree ==
    /\ \E e \in RenderTrees : input = [format |-> "tree", source |-> e]
    /\ pc = "ready"
    /\ error = NoError
    /\ returned = None
    /\ heap = <<>>
    /\ NavIdle
    /\ config \in Configs
    /\ renderer = <<>>
    /\ runs = {}
    /\ CliIdle

\* what to_speech left in the MathRenderer and what the three calls returned
Rendered(sp, nemeth, ueb) ==
    [renderer |-> sp.renderer, speech |-> sp.text, nemeth |-> nemeth, ueb |-> ueb]

\* r.to_speech(n), r.to_braille(n, "nemeth"), r.to_braille(n, "ueb") on the
\* MathRenderer holding rend
RenderNode(rend, cfg, h, n) ==
    Rendered(ToSpeech(rend, cfg, h, n), ToBraille(h, n, "nemeth"), ToBraille(h, n, "ueb"))

\* r = MathRenderer(config); the three texts of every node of the tree, the
\* root first
RenderTreeCall ==
    /\ pc = "done"
    /\ root # None
    /\ \E first \in {RenderNode(renderer, config, heap, root)} :
           /\ renderer' = first.renderer
           /\ returned' = [n \in DOMAIN heap |->
                              RenderNode(first.renderer, config, heap, n)]
    /\ pc' = "rendered"
    /\ UNCHANGED <<heap, root, input, error, navvars, config, runs, clivars>>

NextRenderTree == BuildCall \/ RenderTreeCall

SpecRenderTree == InitRenderTree /\ [][NextRenderTree]_vars

(***************************************************************************)
(* cli.py: main in file-input mode, one loop iteration at a time.          *)
(***************************************************************************)
MaxLines == 3        \* lines of an input file

\* the lines f.readlines() may return: expressions, a source that does not
\* parse, blank lines, comments, a last line without newline
BatchLines ==
    {<<"x", "^", "2", "\n">>, <<"{", "\n">>, <<"\n">>, <<" ", "\n">>,
     <<"#", "x", "\n">>, <<" ", "#", "\n">>, <<" ", "a">>}

\* args: speech text by default, Braille with --braille and --notation
BatchArgs ==
    {[braille |-> FALSE, notation |-> "nemeth"],
     [braille |-> TRUE, notation |-> "nemeth"],
     [braille |-> TRUE, notation |-> "ueb"]}

\* The mutant: a comment line is an expression too.
IsExpressionLineAny(line) == line # <<>>

\* `if line and not line.startswith("#")`, of a stripped line
IsExpressionLine(line) == line # <<>> /\ line[1] # "#"

\* process_expression, default branch: speech = reader.to_speech(expression)
WroteSpeech(sp) == [renderer |-> sp.renderer, ok |-> TRUE, text |-> sp.text, err |-> ""]

\* process_expression with the tree p of the reader's parse: the branch of
\* --braille or the default branch; `except ParseError` writes the message
\* to sys.stderr and nothing to the output
ProcessedArgs(p, args, rend, cfg) ==
    IF p.err # ""
    THEN [renderer |-> rend, ok |-> FALSE, text |-> "", err |-> p.err]
    ELSE IF args.braille
    THEN [renderer |-> rend, ok |-> TRUE,
          text |-> ToBraille(p.heap, p.root, args.notation), err |-> ""]
    ELSE WroteSpeech(ToSpeech(rend, cfg, p.heap, p.root))

\* process_expression(reader, expression, args, output) on a reader whose
\* MathRenderer holds rend: [renderer, ok, text, err]
ProcessExpressionArgs(args, rend, cfg, expression) ==
    ProcessedArgs(Parse(<<>>, [format |-> "latex", source |-> expression]),
                  args, rend, cfg)

\* main up to the loop: config.speech.style = SpeechStyle(args.verbosity),
\* reader = MathReader(config), lines = f.readlines(), success = True
InitBatch ==
    /\ \E f \in SeqsUpTo(BatchLines, MaxLines), a \in BatchArgs :
           input = [format |-> "file", source |-> f, args |-> a]
    /\ pc = "batch"
    /\ error = NoError
    /\ returned = None
    /\ heap = <<>>
    /\ NavIdle
    /\ config \in Configs
    /\ renderer = <<>>
    /\ runs = {}
    /\ CliIdle

\* what process_expression did for one line
MainProcessed(r) ==
    /\ renderer' = r.renderer
    /\ output' = IF r.ok THEN Append(output, r.text) ELSE output
    /\ stderr' = IF r.ok THEN stderr ELSE Append(stderr, <<"Parse error", r.err>>)
    /\ success' = (success /\ r.ok)

\* one iteration of `for line in lines`
MainLine ==
    /\ pc = "batch"
    /\ line_no < Len(input.source)
    /\ line_no' = line_no + 1
    /\ \E line \in {Strip(input.source[line_no + 1], Whitespace)} :
           IF IsExpressionLine(line)
           THEN \E r \in {ProcessExpressionArgs(input.args, renderer, config, line)} :
                    MainProcessed(r)
           ELSE UNCHANGED <<renderer, output, stderr, success>>
    /\ UNCHANGED <<heap, root, navvars, parsevars, config, runs>>

\* `return 0 if success else 1`
MainReturn ==
    /\ pc = "batch"
    /\ line_no = Len(input.source)
    /\ returned' = IF success THEN 0 ELSE 1
    /\ pc' = "exited"
    /\ UNCHANGED <<heap, root, navvars, input, error, rendervars, clivars>>

NextBatch == MainLine \/ MainReturn

SpecBatch == InitBatch /\ [][NextBatch]_vars

(***************************************************************************)
(* SpecScan: parse_latex with the loop of _parse_latex_tokens taken one    *)
(* iteration at a time.  `returned` is the loop's pos, `root` the local    *)
(* root, and `calls` keeps, for each iteration, the character it           *)
(* dispatched on, the position it returned and the tree it started from.   *)
(* Every source holds a ^ or a _ after one of ScriptBases.  The calls of    *)
(* the descent nest on the interpreter's stack: a call that would be frame *)
(* MaxFrames + 1 raises RecursionError instead of running.                 *)
(***************************************************************************)
MaxScript == 2       \* fragments of what follows the ^ or _
MaxFrames == 8       \* frames the stack holds (sys.getrecursionlimit() is
                     \* 1000 by default), scaled to the sources

ScriptBases ==
    {<<>>, <<"a">>, <<"a", "b">>, <<"1", "2">>, <<"a", " ">>, Braced(<<"a">>),
     <<"a", "^", "2">>, FracCommand \o Braced(<<"a">>) \o Braced(<<"b">>),
     Nested(MaxFrames - 2), Nested(MaxFrames - 1)}

ScriptFollowers ==
    Sources(MaxScript)
    \cup {Braced(x) \o y : x \in Sources(MaxScript), y \in {<<>>, <<"a">>}}
    \cup {<<" ", "2">>}

ScanSources ==
    {b \o m \o f : b \in ScriptBases, m \in {<<"^">>, <<"_">>}, f \in ScriptFollowers}

InitScan ==
    /\ \E s \in ScanSources : input = [format |-> "latex", source |-> s]
    /\ pc = "ready"
    /\ error = NoError
    /\ returned = None
    /\ heap = <<>>
    /\ NavIdle
    /\ RenderIdle
    /\ CliIdle

\* parse_latex up to the call of _parse_latex_tokens: the source is stripped
\* and root = SemanticNode(ROOT, metadata={"source": latex})
ScanStart ==
    /\ pc = "ready"
    /\ heap' = New(heap, "ROOT", <<>>, <<>>, "source" :> Str(Delimited(input.source)))
    /\ root' = Len(heap) + 1
    /\ returned' = 0
    /\ pc' = "scanning"
    /\ UNCHANGED <<input, error, navvars, rendervars, clivars>>

\* what the interpreter raises when a call finds the stack full
RecursionError == "maximum recursion depth exceeded"

Deepest(frames) == CHOOSE d \in frames : \A e \in frames : e <= d

RECURSIVE LoopFrames(_, _, _)
RECURSIVE MadeFrames(_, _, _)

\* the deepest frame of the descent that made the children of n, when the
\* call of _parse_latex_tokens whose parent is n was frame d
LoopFrames(h, n, d) ==
    Deepest({d} \cup {MadeFrames(h, h[n].children[i], d) : i \in DOMAIN h[n].children})

\* the deepest frame of the descent that made c in one iteration of a loop
\* that was frame d: a group is parsed by a call made by the loop; the
\* groups of a fraction or a root by a call made by _parse_frac or
\* _parse_sqrt, itself called by _parse_latex_command; the group of a
\* script by a call made by _parse_latex_super or _parse_latex_sub, whose
\* base an earlier iteration of the same loop had made
MadeFrames(h, c, d) ==
    IF h[c].node_type = "GROUP" THEN LoopFrames(h, c, d + 1)
    ELSE IF h[c].node_type \in {"FRACTION", "SQRT", "NROOT"}
    THEN Deepest({d + 2} \cup {LoopFrames(h, h[c].children[i], d + 3) :
                                  i \in DOMAIN h[c].children})
    ELSE IF h[c].node_type \in {"SUPERSCRIPT", "SUBSCRIPT"}
    THEN Deepest({MadeFrames(h, h[c].children[1], d),
                  LoopFrames(h, h[c].children[2], d + 2)})
    ELSE d

\* an iteration of the loop of frame 2 (parse_latex is frame 1) with result
\* r for the parent: the call that would have been frame MaxFrames + 1
\* raised RecursionError, and the loop's pos was not assigned
Limited(r, parent, pos) ==
    IF r.err = "" /\ LoopFrames(r.heap, parent, 2) > MaxFrames
    THEN [heap |-> r.heap, pos |-> pos, err |-> RecursionError, errpos |-> 0]
    ELSE r

\* The mutant: the loop does not assign the position the iteration returned.
ScannedSamePos(r, latex) ==
    /\ heap' = r.heap
    /\ returned' = returned
    /\ error' = [message |-> r.err, position |-> r.errpos]
    /\ pc' = IF r.err = "" THEN "scanning" ELSE "raised"
    /\ calls' = Append(calls, [op |-> At(latex, returned), ret |-> r.pos,
                               before |-> [heap |-> heap, pos |-> returned,
                                           parent |-> root]])
    /\ UNCHANGED <<root, input, current, sibling_index, position_stack, aria,
                   rendervars, clivars>>

\* what one iteration with result r leaves
Scanned(r, latex) ==
    /\ heap' = r.heap
    /\ returned' = r.pos
    /\ error' = [message |-> r.err, position |-> r.errpos]
    /\ pc' = IF r.err = "" THEN "scanning" ELSE "raised"
    /\ calls' = Append(calls, [op |-> At(latex, returned), ret |-> r.pos,
                               before |-> [heap |-> heap, pos |-> returned,
                                           parent |-> root]])
    /\ UNCHANGED <<root, input, current, sibling_index, position_stack, aria,
                   rendervars, clivars>>

\* _parse_latex_tokens: one iteration of `while pos < len(latex)`
ScanStep ==
    /\ pc = "scanning"
    /\ returned < Len(Delimited(input.source))
    /\ \E r \in {TokenStep(heap, Delimited(input.source), returned, root)} :
           \E limited \in {Limited(r, root, returned)} :
               Scanned(limited, Delimited(input.source))

\* the loop ends and parse_latex returns root
ScanReturn ==
    /\ pc = "scanning"
    /\ returned >= Len(Delimited(input.source))
    /\ returned' = root
    /\ pc' = "parsed"
    /\ UNCHANGED <<heap, root, input, error, navvars, rendervars, clivars>>

NextScan == ScanStart \/ ScanStep \/ ScanReturn

SpecScan == InitScan /\ [][NextScan]_vars

(***************************************************************************)
(* SpecGreek: parse_latex on sources that hold one command spelled as a    *)
(* key of GREEK_LETTERS, alone or among other tokens.  `input.key` is the  *)
(* key the source spells.                                                  *)
(***************************************************************************)
GreekBefore == {<<>>, <<"a">>, <<"2", "+">>}
GreekAfter == {<<>>, <<" ", "a">>, <<"^", "2">>}

InitGreek ==
    /\ \E i \in DOMAIN GREEK_LETTERS, b \in GreekBefore, a \in GreekAfter :
           input = [format |-> "latex",
                    source |-> b \o <<"\\">> \o GREEK_LETTERS[i][1] \o a,
                    key |-> GREEK_LETTERS[i][1]]
    /\ pc = "ready"
    /\ error = NoError
    /\ returned = None
    /\ heap = <<>>
    /\ NavIdle
    /\ RenderIdle
    /\ CliIdle

NextGreek == ParseLatexCall

SpecGreek == InitGreek /\ [][NextGreek]_vars

(***************************************************************************)
(* SpecArity: parse_mathml on an mfrac, msup, msub or msqrt element with   *)
(* no, one, two or three child elements, bare or below <math>.             *)
(***************************************************************************)
MaxOperands == 3     \* child elements of an mfrac, msup, msub or msqrt

Operands ==
    {Element(<<"mi">>, <<"x">>, <<>>), Element(<<"mn">>, <<"2">>, <<>>),
     Element(<<"mrow">>, NoText, <<Element(<<"mi">>, <<"y">>, <<>>)>>)}

ArityTags == {"mfrac", "msup", "msub", "msqrt"}

ArityElements ==
    {Element(<<tag>>, NoText, f) : tag \in ArityTags, f \in SeqsUpTo(Operands, MaxOperands)}

InitArity ==
    /\ \E e \in ArityElements :
           \/ input = [format |-> "mathml", source |-> <<e>>]
           \/ input = [format |-> "mathml",
                       source |-> <<Element(<<"math">>, NoText, <<e>>)>>]
    /\ pc = "ready"
    /\ error = NoError
    /\ returned = None
    /\ heap = <<>>
    /\ NavIdle
    /\ RenderIdle
    /\ CliIdle

NextArity == ParseMathmlCall

SpecArity == InitArity /\ [][NextArity]_vars

(***************************************************************************)
(* braille/nemeth.py, braille/ueb.py: one converter of each notation, kept *)
(* over a sequence of render calls.                                        *)
(***************************************************************************)
\* NemethConverter.__init__
NemethConverter(cfg) ==
    [class |-> "NemethConverter", config |-> cfg, _current_mode |-> "NEUTRAL",
     _needs_baseline |-> FALSE, _unsupported_nodes |-> <<>>]

\* UEBConverter.__init__
UEBConverter(cfg) == [class |-> "UEBConverter", config |-> cfg]

\* a render variant that records the mode of the node it rendered
ConverterRenderTracked(conv, h, node) ==
    [converter |-> IF conv.class = "NemethConverter" /\ h[node].node_type = "NUMBER"
                   THEN [conv EXCEPT !._current_mode = "NUMERIC"]
                   ELSE conv,
     text |-> IF conv.class = "NemethConverter"
              THEN NemethRender(h, node) ELSE UebRender(h, node)]

\* conv.render(node): the converter after the call and the text returned; no
\* method of either class assigns or reads a field of self
ConverterRender(conv, h, node) ==
    [converter |-> conv,
     text |-> IF conv.class = "NemethConverter"
              THEN NemethRender(h, node) ELSE UebRender(h, node)]

ConverterTrees ==
    {Expr(t, <<>>, <<l, r>>) :
        t \in {"ROOT", "FRACTION", "SUPERSCRIPT", "NROOT", "MATRIX", "SQRT"},
        l \in {Expr("IDENTIFIER", <<"a">>, <<>>), Expr("NUMBER", <<"2">>, <<>>)},
        r \in {Expr("IDENTIFIER", <<"a">>, <<>>), Expr("NUMBER", <<"2">>, <<>>)}}

InitConverter ==
    /\ \E e \in ConverterTrees : input = [format |-> "tree", source |-> e]
    /\ pc = "ready"
    /\ error = NoError
    /\ returned = None
    /\ heap = <<>>
    /\ NavIdle
    /\ config = Config
    /\ renderer = <<NemethConverter(Config), UEBConverter(Config)>>
    /\ runs = {}
    /\ CliIdle

\* text = renderer[i].render(n)
ConverterRenderCall ==
    /\ pc = "done"
    /\ Cardinality(runs) < MaxRuns
    /\ \E i \in DOMAIN renderer, n \in DOMAIN heap :
          \E r \in {ConverterRender(renderer[i], heap, n)} :
             /\ renderer' = [renderer EXCEPT ![i] = r.converter]
             /\ runs' = runs \cup {[instance |-> i, node |-> n, text |-> r.text]}
    /\ UNCHANGED <<heap, root, parsevars, navvars, config, clivars>>

NextConverter == BuildCall \/ ConverterRenderCall

SpecConverter == InitConverter /\ [][NextConverter]_vars

(***************************************************************************)
(* reader.py: to_braille, with and without a notation argument, on readers *)
(* made for configurations of either Braille notation.                     *)
(***************************************************************************)
\* Config(braille=BrailleConfig(notation=...))
BrailleConfigs ==
    {[Config EXCEPT !.braille.notation = n] : n \in {"NEMETH", "UEB"}}

BrailleSources ==
    {<<"x", "^", "2">>, <<"2">>, <<"a">>, <<"a", "+", "2">>, <<"{">>}

\* the notation arguments of a call: none, or one of the two names
NotationArgs == {<<>>, <<"nemeth">>, <<"ueb">>}

\* self._renderer.to_braille(tree, notation=notation) on what parse made;
\* a ParseError leaves no text
BrailleOf(p, notation) ==
    IF p.err # "" THEN [ok |-> FALSE, text |-> <<>>]
    ELSE [ok |-> TRUE, text |-> ToBraille(p.heap, p.root, notation)]

\* MathReader.to_braille(math_input, *args) on a reader made for cfg: the
\* parameter notation is "nemeth" when no argument is given
ReaderToBraille(cfg, math_input, args) ==
    BrailleOf(Parse(<<>>, [format |-> "latex", source |-> math_input]),
              IF args = <<>> THEN "nemeth" ELSE args[1])

InitBraille ==
    /\ heap = <<>>
    /\ NavIdle
    /\ ParseIdle
    /\ config \in BrailleConfigs
    /\ renderer = <<>>
    /\ runs = {}
    /\ CliIdle

\* text = MathReader(config).to_braille(s, *args)
ToBrailleCall ==
    /\ Cardinality(runs) < MaxRuns
    /\ \E s \in BrailleSources, args \in NotationArgs :
          \E r \in {ReaderToBraille(config, s, args)} :
             runs' = runs \cup {[source |-> s, args |-> args, ok |-> r.ok,
                                 text |-> r.text]}
    /\ UNCHANGED <<heap, root, navvars, parsevars, config, renderer, clivars>>

\* config.braille.notation = BrailleNotation(...), by the owner of the Config
SetNotation ==
    /\ runs = {}
    /\ \E n \in {"NEMETH", "UEB"} \ {config.braille.notation} :
          config' = [config EXCEPT !.braille.notation = n]
    /\ UNCHANGED <<heap, root, navvars, parsevars, renderer, runs, clivars>>

NextBraille == ToBrailleCall \/ SetNotation

SpecBraille == InitBraille /\ [][NextBraille]_vars

(***************************************************************************)
(* parser.py: the strings that _parse_latex_tokens is called on by the     *)
(* iterations of its loop.                                                 *)
(***************************************************************************)
\* the content between the brace at pos and its match m
BraceContent(latex, pos, m) == IF m.err # "" THEN {} ELSE {Slice(latex, pos + 1, m.pos)}

\* the brace group that must stand at pos: its content
BraceStrings(h, latex, pos) ==
    IF pos >= Len(latex) \/ At(latex, pos) # "{" THEN {}
    ELSE BraceContent(latex, pos, FindMatchingBrace(h, latex, pos))

\* the brace group at pos and the one after it: num_content and
\* denom_content, parsed when both were found
BracePair(h, latex, pos, m) ==
    IF m.err # "" \/ BraceStrings(h, latex, SkipWhitespace(latex, m.pos + 1)) = {}
    THEN {}
    ELSE BraceContent(latex, pos, m)
         \cup BraceStrings(h, latex, SkipWhitespace(latex, m.pos + 1))

\* _parse_frac
FracStrings(h, latex, pos) ==
    IF pos >= Len(latex) \/ At(latex, pos) # "{" THEN {}
    ELSE BracePair(h, latex, pos, FindMatchingBrace(h, latex, pos))

\* _parse_sqrt from the radicand: index_content is parsed when it is not
\* empty, then radicand_content
RadicandStrings(h, latex, index, pos) ==
    IF BraceStrings(h, latex, pos) = {} THEN {}
    ELSE (index \ {<<>>}) \cup BraceStrings(h, latex, pos)

\* _parse_sqrt
SqrtStrings(h, latex, pos) ==
    IF pos < Len(latex) /\ At(latex, pos) = "["
    THEN IF FindBracket(latex, pos) = -1 THEN {}
         ELSE RadicandStrings(h, latex, {Slice(latex, pos + 1, FindBracket(latex, pos))},
                              SkipWhitespace(latex, FindBracket(latex, pos) + 1))
    ELSE RadicandStrings(h, latex, {}, pos)

\* _parse_latex_super, _parse_latex_sub: exp_content, sub_content
ScriptStrings(h, latex, pos, parent) ==
    IF h[parent].children = <<>> THEN {}
    ELSE IF pos < Len(latex) /\ At(latex, pos) = "{" THEN BraceStrings(h, latex, pos)
    ELSE IF pos < Len(latex) THEN {<<At(latex, pos)>>}
    ELSE {<<>>}

\* the strings the iteration at pos calls _parse_latex_tokens on, when no
\* call before raises
CallStrings(h, latex, pos, parent) ==
    IF At(latex, pos) = "{" THEN BraceStrings(h, latex, pos)
    ELSE IF At(latex, pos) \in {"^", "_"} THEN ScriptStrings(h, latex, pos + 1, parent)
    ELSE IF At(latex, pos) # "\\" THEN {}
    ELSE IF Str(LettersFrom(latex, pos + 1)) = "frac"
    THEN FracStrings(h, latex, SkipWhitespace(latex, pos + 5))
    ELSE IF Str(LettersFrom(latex, pos + 1)) = "sqrt"
    THEN SqrtStrings(h, latex, SkipWhitespace(latex, pos + 5))
    ELSE {}

RECURSIVE LoopStrings(_, _, _, _)
RECURSIVE LoopStringsNext(_, _, _)

\* the strings of the iterations of the loop from pos on
LoopStrings(h, latex, pos, parent) ==
    IF pos >= Len(latex) THEN {}
    ELSE CallStrings(h, latex, pos, parent)
         \cup LoopStringsNext(TokenStep(h, latex, pos, parent), latex, parent)

LoopStringsNext(r, latex, parent) ==
    IF r.err # "" THEN {} ELSE LoopStrings(r.heap, latex, r.pos, parent)

(***************************************************************************)
(* core/aria_navigator.py: FocusManager and ARIANavigator.  `aria` holds   *)
(* the fields the subclass adds, and two records of what happened: what    *)
(* every call returned or raised, and every announcement ever put into the *)
(* queue.  A node id that is None is <<>>.                                 *)
(***************************************************************************)
NavigationModes == {"BROWSE", "EXPLORE", "VERBOSE_LEARNING"}

\* switch_mode: mode_names and the help that follows the name
MODE_NAMES ==
    <<<<"BROWSE", "Browse mode">>, <<"EXPLORE", "Explore mode">>,
      <<"VERBOSE_LEARNING", "Verbose learning mode">>>>
MODE_HELP ==
    <<<<"BROWSE", "Use arrow keys to jump between major terms.">>,
      <<"EXPLORE", "Use Enter to drill down, Escape to go up, arrows to move between siblings.">>,
      <<"VERBOSE_LEARNING", "Extended descriptions will be provided with pedagogical hints.">>>>

\* node_type.name.lower()
TYPE_NAMES_LOWER ==
    <<<<"ROOT", "root">>, <<"GROUP", "group">>, <<"NUMBER", "number">>,
      <<"IDENTIFIER", "identifier">>, <<"FRACTION", "fraction">>,
      <<"SUPERSCRIPT", "superscript">>, <<"SUBSCRIPT", "subscript">>,
      <<"SQRT", "sqrt">>, <<"NROOT", "nroot">>, <<"OPERATOR", "operator">>,
      <<"RELATION", "relation">>, <<"FUNCTION", "function">>, <<"SUM", "sum">>,
      <<"PRODUCT", "product">>, <<"INTEGRAL", "integral">>, <<"LIMIT", "limit">>,
      <<"MATRIX", "matrix">>, <<"MATRIX_ROW", "matrix_row">>, <<"TEXT", "text">>,
      <<"SPACE", "space">>>>

\* _generate_verbose_description: descriptions
VERBOSE_DESCRIPTIONS ==
    <<<<"FRACTION", "A fraction represents division. It has a numerator (top) and a denominator (bottom). The numerator is divided by the denominator.">>,
      <<"SUPERSCRIPT", "A superscript represents exponentiation or power. The base is raised to the power of the exponent.">>,
      <<"SQRT", "A square root asks: what number, when multiplied by itself, gives the number inside the root?">>,
      <<"SUM", "A summation adds up a sequence of terms. The variable below shows what changes, and the limits show the range.">>,
      <<"INTEGRAL", "An integral calculates the area under a curve or the accumulated change. It's the reverse operation of differentiation.">>>>

\* FocusManager.set_focus on the manager fm
SetFocus(fm, node_id) ==
    [_focused_node_id |-> node_id,
     _focus_history |-> IF fm._focused_node_id # <<>>
                        THEN Append(fm._focus_history, fm._focused_node_id)
                        ELSE fm._focus_history]

\* FocusManager.__init__
FocusManager == [_focused_node_id |-> <<>>, _focus_history |-> <<>>]

RECURSIVE NodeEq(_, _, _, _)
RECURSIVE RefEq(_, _, _, _)
RECURSIVE ListEq(_, _, _, _, _)

\* a == b for two fields that hold a node or None, as a container compares
\* its items: the same object is equal without a call of __eq__, None equals
\* no node, and two nodes are compared by the __eq__ of the dataclass.  A
\* comparison that comes back to a pair it is already comparing never ends:
\* the interpreter raises RecursionError.
RefEq(h, a, b, comparing) ==
    IF a = b THEN "True"
    ELSE IF a = None \/ b = None THEN "False"
    ELSE IF <<a, b>> \in comparing THEN "RecursionError"
    ELSE NodeEq(h, a, b, comparing \cup {<<a, b>>})

\* list.__eq__: lists of different lengths are unequal, else the first pair
\* of items that is not equal decides
ListEq(h, xs, ys, i, comparing) ==
    IF Len(xs) # Len(ys) THEN "False"
    ELSE IF i > Len(xs) THEN "True"
    ELSE IF RefEq(h, xs[i], ys[i], comparing) # "True"
    THEN RefEq(h, xs[i], ys[i], comparing)
    ELSE ListEq(h, xs, ys, i + 1, comparing)

\* SemanticNode.__eq__, which @dataclass generates: the tuples of the fields
\* are compared, in the order of their declaration
NodeEq(h, a, b, comparing) ==
    IF h[a].node_type # h[b].node_type \/ h[a].content # h[b].content THEN "False"
    ELSE IF ListEq(h, h[a].children, h[b].children, 1, comparing) # "True"
    THEN ListEq(h, h[a].children, h[b].children, 1, comparing)
    ELSE IF RefEq(h, h[a].parent, h[b].parent, comparing) # "True"
    THEN RefEq(h, h[a].parent, h[b].parent, comparing)
    ELSE IF /\ h[a].metadata = h[b].metadata
            /\ h[a].node_id = h[b].node_id
            /\ h[a].accessibility_metadata = h[b].accessibility_metadata
    THEN "True" ELSE "False"

\* siblings.index(node) if node in siblings else -1: [raised, idx], idx
\* being the 0-based index of the first item that is node or equals it
RECURSIVE IndexIn(_, _, _, _)
IndexIn(h, siblings, node, i) ==
    IF i > Len(siblings) THEN [raised |-> "", idx |-> -1]
    ELSE IF RefEq(h, siblings[i], node, {}) = "True" THEN [raised |-> "", idx |-> i - 1]
    ELSE IF RefEq(h, siblings[i], node, {}) = "RecursionError"
    THEN [raised |-> "RecursionError", idx |-> -1]
    ELSE IndexIn(h, siblings, node, i + 1)

\* _generate_description
GenerateDescription(h, node) ==
    IF "aria_label" \in DOMAIN h[node].accessibility_metadata
    THEN h[node].accessibility_metadata["aria_label"]
    ELSE IF h[node].node_type = "ROOT" THEN "mathematical expression"
    ELSE IF h[node].node_type = "NUMBER" THEN "number " \o Str(h[node].content)
    ELSE IF h[node].node_type = "IDENTIFIER" THEN "variable " \o Str(h[node].content)
    ELSE IF h[node].node_type = "FRACTION" THEN "fraction"
    ELSE IF h[node].node_type = "SUPERSCRIPT" THEN "superscript"
    ELSE IF h[node].node_type = "SUBSCRIPT" THEN "subscript"
    ELSE IF h[node].node_type = "SQRT" THEN "square root"
    ELSE IF h[node].node_type = "NROOT" THEN "n-th root"
    ELSE IF h[node].node_type = "SUM" THEN "summation"
    ELSE IF h[node].node_type = "INTEGRAL" THEN "integral"
    ELSE IF h[node].node_type = "OPERATOR" THEN "operator " \o Str(h[node].content)
    ELSE IF h[node].node_type = "RELATION" THEN "relation " \o Str(h[node].content)
    ELSE Get(TYPE_NAMES_LOWER, h[node].node_type, "")

\* _generate_navigation_hint from `if node.parent`, idx being what the
\* search among the siblings gave
SiblingHints(h, node, siblings, idx) ==
    (IF idx > 0 THEN <<"Left arrow for previous">> ELSE <<>>)
    \o (IF idx < Len(siblings) - 1 THEN <<"Right arrow for next">> ELSE <<>>)
    \o (IF h[h[node].parent].node_type # "ROOT" THEN <<"Escape to go up">> ELSE <<>>)

\* _generate_navigation_hint: the list hints
NavigationHints(h, node, idx) ==
    (IF h[node].children # <<>> THEN <<"Press Enter to explore">> ELSE <<>>)
    \o (IF h[node].parent = None THEN <<>>
        ELSE SiblingHints(h, node, GetNavigableChildren(h, h[node].parent), idx))

\* _generate_navigation_hint after the search among the siblings gave
\* found: [raised, text]
HintText(h, node, found) ==
    IF found.raised # "" THEN [raised |-> found.raised, text |-> ""]
    ELSE [raised |-> "",
          text |-> IF NavigationHints(h, node, found.idx) = <<>>
                   THEN "No navigation available"
                   ELSE Join(". ", NavigationHints(h, node, found.idx))]

\* _generate_navigation_hint: the siblings are searched only when the node
\* has a parent
GenerateNavigationHint(h, node) ==
    HintText(h, node,
             IF h[node].parent = None THEN [raised |-> "", idx |-> -1]
             ELSE IndexIn(h, GetNavigableChildren(h, h[node].parent), node, 1))

\* _generate_verbose_description
GenerateVerboseDescription(h, node) ==
    Get(VERBOSE_DESCRIPTIONS, h[node].node_type, GenerateDescription(h, node))

\* get_announcement: base_text
BaseText(h, node) ==
    IF "spoken_text" \in DOMAIN h[node].accessibility_metadata
    THEN h[node].accessibility_metadata["spoken_text"]
    ELSE GenerateDescription(h, node)

\* get_announcement in EXPLORE mode, hint being what was stored or generated
ExploreAnnouncement(h, node, hint) ==
    IF hint.raised # "" THEN hint
    ELSE [raised |-> "", text |-> BaseText(h, node) \o ". " \o hint.text]

\* get_announcement in mode `mode` at the node: [raised, text]
GetAnnouncement(h, node, mode) ==
    IF mode = "BROWSE" THEN [raised |-> "", text |-> BaseText(h, node)]
    ELSE IF mode = "EXPLORE"
    THEN ExploreAnnouncement(h, node,
             IF DictGet(h[node].accessibility_metadata, "navigation_hint", "") # ""
             THEN [raised |-> "", text |-> h[node].accessibility_metadata["navigation_hint"]]
             ELSE GenerateNavigationHint(h, node))
    ELSE [raised |-> "",
          text |-> BaseText(h, node) \o ". " \o
                   (IF DictGet(h[node].accessibility_metadata, "description", "") # ""
                    THEN h[node].accessibility_metadata["description"]
                    ELSE GenerateVerboseDescription(h, node))]

\* ARIANavigator.__init__ after super().__init__(root), for a Config whose
\* accessibility.navigation_mode is mode
AriaInit(h, r, mode) ==
    [_mode |-> mode,
     _focus_manager |-> SetFocus(FocusManager, h[r].node_id),
     _announcement_queue |-> <<>>,
     outcomes |-> <<>>,
     success |-> <<>>,
     announced |-> <<>>]

\* ARIANavigator.get_aria_attributes: attrs['tabindex']
TabIndex(h, a, node) ==
    IF a._focus_manager._focused_node_id = h[node].node_id THEN "0" ELSE "-1"

\* what a call leaves in the record of the calls: what it returned or
\* raised, and for a move the value of its local `success` ("": not a move)
Outcome(a, ret, ok) ==
    [a EXCEPT !.outcomes = Append(@, ret), !.success = Append(@, ok)]

\* `self._announcement_queue.append(announcement)`: the call returns ret
Announced(a, text, ret, ok) ==
    Outcome([a EXCEPT !._announcement_queue = Append(@, text),
                      !.announced = Append(@, text)], ret, ok)

\* what follows `success = super().<move>()` when the move left the cursor
\* on node: ok is "True", "False" or what super() raised, an is what
\* get_announcement() gave there
AfterMove(a, h, node, ok, an) ==
    IF ok # "True" THEN Outcome(a, ok, ok)
    ELSE IF an.raised # "" THEN Outcome(a, an.raised, ok)
    ELSE Announced(a, an.text, "True", ok)

\* enter, exit, next, previous of ARIANavigator after super()'s method:
\* the focus is set, then the announcement is made and queued
Moved(a, h, node, ok) ==
    \E focused \in {IF ok = "True"
                    THEN [a EXCEPT !._focus_manager = SetFocus(@, h[node].node_id)]
                    ELSE a} :
        \E an \in {IF ok = "True" THEN GetAnnouncement(h, node, a._mode)
                   ELSE [raised |-> "", text |-> ""]} :
            aria' = AfterMove(focused, h, node, ok, an)

\* what a move of MathNavigator that returns a bool returned
Returned(call) == IF call.ret THEN "True" ELSE "False"

\* what MathNavigator.previous does in the state
PreviousReturns ==
    IF heap[current].parent = None \/ sibling_index <= 0 THEN "False"
    ELSE IF sibling_index - 1 < Len(GetNavigableChildren(heap, heap[current].parent))
    THEN "True" ELSE "IndexError"

AriaTrees ==
    {Expr("ROOT", <<>>, <<Expr("IDENTIFIER", <<"x">>, <<>>),
                          Expr("OPERATOR", <<"+">>, <<>>),
                          Expr("NUMBER", <<"2">>, <<>>)>>),
     Expr("ROOT", <<>>,
          <<Expr("SUPERSCRIPT", <<>>, <<Expr("IDENTIFIER", <<"x">>, <<>>),
                                        Expr("GROUP", <<>>, <<Expr("NUMBER", <<"2">>, <<>>)>>)>>),
            Expr("SUPERSCRIPT", <<>>, <<Expr("IDENTIFIER", <<"x">>, <<>>),
                                        Expr("GROUP", <<>>, <<Expr("NUMBER", <<"3">>, <<>>)>>)>>)>>),
     ExampleD, NestedRoot}

\* nav = ARIANavigator(tree, config)
InitAria ==
    /\ \E e \in AriaTrees :
           \E b \in {Build(<<>>, e)} :
               /\ heap = b.heap
               /\ NavInit(b.id)
               /\ \E mode \in NavigationModes : aria = AriaInit(b.heap, b.id, mode)
    /\ ParseIdle
    /\ RenderIdle
    /\ CliIdle

AriaEnter == Enter /\ Moved(aria, heap, current', Returned(calls'[Len(calls')]))
AriaExit == Exit /\ Moved(aria, heap, current', Returned(calls'[Len(calls')]))
AriaNext == NextSibling /\ Moved(aria, heap, current', Returned(calls'[Len(calls')]))
AriaPrevious == Previous /\ Moved(aria, heap, current', PreviousReturns)

\* reset is inherited from MathNavigator
AriaReset == Reset /\ aria' = Outcome(aria, "None", "")

\* what a call that is not a move leaves of the navigator
AriaCalled(op, ret) ==
    /\ Len(calls) < MaxCalls
    /\ calls' = Append(calls, Call(op, ret))
    /\ UNCHANGED <<heap, root, current, sibling_index, position_stack,
                   parsevars, rendervars, clivars>>

\* switch_mode
SwitchMode ==
    \E mode \in NavigationModes :
        \E text \in {"Switched to " \o Get(MODE_NAMES, mode, "") \o ". "
                     \o Get(MODE_HELP, mode, "")} :
            /\ AriaCalled("switch_mode", text)
            /\ aria' = Announced([aria EXCEPT !._mode = mode], text, text, "")

\* get_next_announcement
GetNextAnnouncement ==
    IF aria._announcement_queue # <<>>
    THEN /\ AriaCalled("get_next_announcement", Head(aria._announcement_queue))
         /\ aria' = Outcome([aria EXCEPT !._announcement_queue = Tail(@)],
                             Head(aria._announcement_queue), "")
    ELSE /\ AriaCalled("get_next_announcement", "None")
         /\ aria' = Outcome(aria, "None", "")

\* clear_announcements
ClearAnnouncements ==
    /\ AriaCalled("clear_announcements", "None")
    /\ aria' = Outcome([aria EXCEPT !._announcement_queue = <<>>], "None", "")

NextAria ==
    \/ AriaEnter \/ AriaExit \/ AriaNext \/ AriaPrevious \/ AriaReset
    \/ SwitchMode \/ GetNextAnnouncement \/ ClearAnnouncements

SpecAria == InitAria /\ [][NextAria]_vars

(***************************************************************************)
(* Claims about the navigator and the tree.                                *)
(***************************************************************************)
IsExampleD == heap = Build(<<>>, ExampleD).heap /\ root = Len(heap)
Ops == [i \in DOMAIN calls |-> calls[i].op]
\* child number i (0-based) of node n
Child(n, i) == heap[n].children[i + 1]

\* C1: on Fraction[Group[Identifier a], Group[Identifier b]], starting at the
\* Fraction, enter(), next(), exit() all succeed: after enter() the cursor is
\* on a, after next() on b, after exit() on the Fraction again.
C1_EnterNextExit ==
    IsExampleD =>
        /\ Ops = <<"enter">> =>
               calls[1].ret = TRUE /\ current = Child(Child(root, 0), 0)
        /\ Ops = <<"enter", "next">> =>
               calls[2].ret = TRUE /\ current = Child(Child(root, 1), 0)
        /\ Ops = <<"enter", "next", "exit">> =>
               calls[3].ret = TRUE /\ current = root

\* C2: a navigator created at the Root of a tree never rests on a Group node.
C2_NeverOnGroup ==
    (root # None /\ heap[root].node_type = "ROOT") =>
        heap[current].node_type # "GROUP"

\* the number of times node c occurs in the children list of node p
Occurrences(p, c) ==
    Cardinality({i \in DOMAIN heap[p].children : heap[p].children[i] = c})

\* C7: after any constructions and add_child calls no node is in the children
\* lists of two different nodes and no node occurs twice in one list.
C7_SingleAdoption ==
    \A c \in DOMAIN heap :
        /\ Cardinality({p \in DOMAIN heap : Occurrences(p, c) > 0}) <= 1
        /\ \A p \in DOMAIN heap : Occurrences(p, c) <= 1

(***************************************************************************)
(* Claims about the parsers and the trees they return.                     *)
(***************************************************************************)
Finished == pc \in {"done", "queried"}
IsLatex == Finished /\ input.format = "latex"
Types(ts) == {n \in DOMAIN heap : heap[n].node_type \in ts}
TreeNodes == LET w == Walk(heap, root) IN {w[i] : i \in DOMAIN w}

\* d lies below n with nothing but Group and Root nodes between them
RECURSIVE ThroughGroups(_, _)
ThroughGroups(n, d) ==
    LET p == heap[d].parent IN
    IF p = n THEN TRUE
    ELSE IF p = None THEN FALSE
    ELSE heap[p].node_type \in {"GROUP", "ROOT"} /\ ThroughGroups(n, p)

\* the nearest descendants of n that are no Group and no Root, in document order
Nearest(n) ==
    SelectSeq(Tail(Walk(heap, n)),
              LAMBDA d : heap[d].node_type \notin {"GROUP", "ROOT"} /\ ThroughGroups(n, d))

\* C5: get_navigable_children(n) is, in document order, the nearest
\* descendants of n that are not Group or Root, reached through Group/Root
\* nodes only; for k groups nested around one identifier a, parsed by
\* parse_latex, the result at the root is the single Identifier a.
C5_NavigableChildren ==
    pc = "queried" =>
        /\ \A n \in DOMAIN heap : returned[n] = Nearest(n)
        /\ (input.format = "latex" /\ input.source \in NestedGroups) =>
               /\ Len(returned[root]) = 1
               /\ heap[returned[root][1]].node_type = "IDENTIFIER"
               /\ heap[returned[root][1]].content = <<"a">>

C5_Witness ==
    /\ pc = "queried"
    /\ input.format = "latex"
    /\ input.source = Nested(MaxDepth)
    /\ Cardinality(Types({"GROUP"})) = MaxDepth
    /\ Len(returned[root]) = 1
    /\ heap[heap[returned[root][1]].parent].node_type = "GROUP"

\* following parent references from n reaches the root within k steps
RECURSIVE ReachesRoot(_, _)
ReachesRoot(n, k) ==
    IF n = root THEN TRUE
    ELSE IF n = None \/ k = 0 THEN FALSE
    ELSE ReachesRoot(heap[n].parent, k - 1)

\* C6: in a tree returned by parse_latex or parse_mathml every node but the
\* root has a parent whose children contain it exactly once, no other
\* node's children contain it, and its parent references lead to the root;
\* also for the base that ^ or _ moved below a new Superscript/Subscript.
C6_ParentChildren ==
    (Finished /\ root # None /\ input.format \in {"latex", "mathml"}) =>
        \A n \in TreeNodes \ {root} :
            /\ heap[n].parent # None
            /\ Occurrences(heap[n].parent, n) = 1
            /\ \A q \in DOMAIN heap : \A i \in DOMAIN heap[q].children :
                   heap[q].children[i] = n => q = heap[n].parent
            /\ ReachesRoot(n, Len(heap))

C6_Witness ==
    /\ IsLatex
    /\ input.source = <<"a", "^", "2">>
    /\ root # None
    /\ \E n \in TreeNodes :
           /\ heap[n].node_type = "SUPERSCRIPT"
           /\ heap[heap[n].children[1]].content = <<"a">>
           /\ heap[heap[n].children[1]].parent = n
           /\ heap[n].parent = root

\* depth counting: the number of { that are open at the end of s
RECURSIVE OpenBraces(_, _, _)
OpenBraces(s, pos, depth) ==
    IF pos >= Len(s) THEN depth
    ELSE OpenBraces(s, pos + 1,
                    IF At(s, pos) = "{" THEN depth + 1
                    ELSE IF At(s, pos) = "}" /\ depth > 0 THEN depth - 1
                    ELSE depth)

\* some { of s has no matching }
Unmatched(s) == OpenBraces(s, 0, 0) > 0

ParseErrorMessages ==
    {"Unclosed brace", "Superscript without base", "Subscript without base",
     "Expected { after \\frac", "Expected { for denominator",
     "Unclosed [ in sqrt", "Expected { after \\sqrt"}

\* s has no ^, no _ and no backslash
Plain(s) == \A i \in DOMAIN s : s[i] \notin {"^", "_", "\\"}

RECURSIVE MatchFrom(_, _, _)
MatchFrom(s, pos, depth) ==
    IF pos >= Len(s) THEN -1
    ELSE IF At(s, pos) = "{" THEN MatchFrom(s, pos + 1, depth + 1)
    ELSE IF At(s, pos) = "}"
         THEN IF depth = 1 THEN pos ELSE MatchFrom(s, pos + 1, depth - 1)
    ELSE MatchFrom(s, pos + 1, depth)

\* the end of the brace group that follows position p (after blanks), or -1
GroupAt(s, p) ==
    LET q == SkipWhitespace(s, p) IN
    IF q < Len(s) /\ At(s, q) = "{" THEN MatchFrom(s, q + 1, 1) ELSE -1

\* every } of t closes a { of t and every { of t is closed in t
RECURSIVE Balanced(_, _, _)
Balanced(t, pos, depth) ==
    IF pos >= Len(t) THEN depth = 0
    ELSE IF At(t, pos) = "{" THEN Balanced(t, pos + 1, depth + 1)
    ELSE IF At(t, pos) = "}" THEN depth > 0 /\ Balanced(t, pos + 1, depth - 1)
    ELSE Balanced(t, pos + 1, depth)

\* the ] that closes the [ at position p: the first one outside braces
Closers(s, p) ==
    {j \in (p + 1)..(Len(s) - 1) : At(s, j) = "]" /\ Balanced(Slice(s, p + 1, j), 0, 0)}
CloseBracket(s, p) ==
    IF Closers(s, p) = {} THEN -1
    ELSE CHOOSE j \in Closers(s, p) : \A k \in Closers(s, p) : j <= k

\* the start of the innermost group that is open at position i
RECURSIVE GroupStart(_, _, _)
GroupStart(s, j, depth) ==
    IF j < 0 THEN 0
    ELSE IF At(s, j) = "}" THEN GroupStart(s, j - 1, depth + 1)
    ELSE IF At(s, j) = "{"
         THEN IF depth = 0 THEN j + 1 ELSE GroupStart(s, j - 1, depth - 1)
    ELSE GroupStart(s, j - 1, depth)

\* the ^ or _ at position i follows, in its group, text that ends in
\* something that makes a node: not a delimiter, not another ^ or _
ScriptHasBase(s, i) ==
    LET t == RStrip(Slice(s, GroupStart(s, i - 1, 0), i), Whitespace) IN
    t # <<>> /\ t[Len(t)] \notin {"{", "^", "_", "\\", "[", "$"}

CommandAt(s, i, name) == At(s, i) = "\\" /\ Str(LettersFrom(s, i + 1)) = name

\* Brace and argument well-formedness: every { is matched, every \frac is
\* followed by two brace groups, every \sqrt by an optional closed [..] and
\* a brace group, every ^ or _ has a preceding sibling in its group.
WellFormed(s) ==
    /\ ~Unmatched(s)
    /\ \A i \in 0..(Len(s) - 1) :
        /\ CommandAt(s, i, "frac") =>
               /\ GroupAt(s, i + 5) >= 0
               /\ GroupAt(s, GroupAt(s, i + 5) + 1) >= 0
        /\ CommandAt(s, i, "sqrt") =>
               LET p == SkipWhitespace(s, i + 5) IN
               IF p < Len(s) /\ At(s, p) = "["
               THEN /\ CloseBracket(s, p) >= 0
                    /\ GroupAt(s, CloseBracket(s, p) + 1) >= 0
               ELSE GroupAt(s, p) >= 0
        /\ At(s, i) \in {"^", "_"} => ScriptHasBase(s, i)

\* C10: parse_latex returns a tree and raises nothing for every well-formed
\* input, and an unknown command or an unrecognized character of such an
\* input becomes a Text node.
C10_TotalOnWellFormed ==
    (IsLatex /\ WellFormed(input.source)) =>
        /\ error.message = ""
        /\ root # None
        /\ IsSubstring(<<"\\", "f", "o", "o">>, input.source) =>
               \E n \in Types({"TEXT"}) : heap[n].content = <<"\\", "f", "o", "o">>
        /\ IsSubstring(<<"?">>, input.source) =>
               \E n \in Types({"TEXT"}) : heap[n].content = <<"?">>

(***************************************************************************)
(* Claims about serialization.                                             *)
(***************************************************************************)
\* a and b are the roots of trees that agree at every position
RECURSIVE SameTree(_, _, _)
SameTree(h, a, b) ==
    /\ h[a].node_type = h[b].node_type
    /\ h[a].content = h[b].content
    /\ h[a].metadata = h[b].metadata
    /\ h[a].node_id = h[b].node_id
    /\ h[a].accessibility_metadata = h[b].accessibility_metadata
    /\ Len(h[a].children) = Len(h[b].children)
    /\ \A i \in DOMAIN h[a].children :
           SameTree(h, h[a].children[i], h[b].children[i])

\* C3: from_dict(T.to_dict()) is a tree of new objects that has, at every
\* position, the node type, content, metadata, number and order of children,
\* node_id and accessibility metadata of T.
C3_RoundTrip ==
    pc = "restored" =>
        /\ returned \notin {Walk(heap, root)[i] : i \in DOMAIN Walk(heap, root)}
        /\ SameTree(heap, root, returned)

\* A tree of several nodes, one of them with accessibility metadata, was
\* serialized and restored: the copy's root is a new object that carries the
\* original's node_id instead of the one its constructor drew.
C3_Witness ==
    /\ pc = "restored"
    /\ Len(Walk(heap, root)) >= 3
    /\ \E n \in DOMAIN heap :
           /\ n \in {Walk(heap, returned)[i] : i \in DOMAIN Walk(heap, returned)}
           /\ heap[n].accessibility_metadata # EmptyDict
    /\ returned # root
    /\ heap[returned].node_id = heap[root].node_id
    /\ heap[returned].node_id # <<"math-node", returned>>

(***************************************************************************)
(* Claims about the renderers.                                             *)
(***************************************************************************)
\* the Fraction nodes whose numerator and denominator render to non-empty text
SpokenFractions ==
    {n \in Types({"FRACTION"}) :
        /\ Len(heap[n].children) >= 2
        /\ returned[Child(n, 0)] # ""
        /\ returned[Child(n, 1)] # ""}

C4_SameInputSameOutput ==
    \A a \in runs, b \in runs :
        (a.source = b.source /\ a.style = b.style) =>
            /\ a.ok = b.ok
            /\ a.speech = b.speech
            /\ a.nemeth = b.nemeth
            /\ a.ueb = b.ueb

\* the node types that SpeechRenderer and NemethConverter have no rule for,
\* and those that UEBConverter has none for
Unruled == {"PRODUCT", "LIMIT", "MATRIX", "MATRIX_ROW", "SPACE"}
UnruledUeb == Unruled \cup {"NROOT", "SUM", "INTEGRAL"}

\* the texts returned for the children of node n, in order
ChildTexts(n, field) ==
    [i \in DOMAIN heap[n].children |-> returned[heap[n].children[i]][field]]

\* C11: rendering a tree of any node types, whatever the number of children,
\* returns a speech, a Nemeth and a UEB text for every node; a node whose
\* type has no rule of its own yields its content (for Braille: as a Text
\* node of that content is written) when it has content, and its children's
\* texts put together otherwise.
C11_RenderFallback ==
    pc = "rendered" =>
        /\ DOMAIN returned = DOMAIN heap
        /\ \A n \in Types(Unruled) :
               /\ returned[n].speech =
                      IF heap[n].content # <<>> THEN Str(heap[n].content)
                      ELSE Join(" ", SelectSeq(ChildTexts(n, "speech"), NonEmpty))
               /\ returned[n].nemeth =
                      IF heap[n].content # <<>> THEN NemethRenderText(heap[n].content)
                      ELSE Concat(ChildTexts(n, "nemeth"))
        /\ \A n \in Types(UnruledUeb) :
               returned[n].ueb =
                   IF heap[n].content # <<>> THEN UebRenderText(heap[n].content)
                   ELSE Concat(ChildTexts(n, "ueb"))

\* a Matrix without content over the children a and 2 was rendered, by its
\* children.
C11_Witness ==
    /\ pc = "rendered"
    /\ heap[root].node_type = "MATRIX"
    /\ heap[root].content = <<>>
    /\ Len(heap[root].children) = 2
    /\ returned[root].speech = "a 2"

(***************************************************************************)
(* Claims about the command line.                                          *)
(***************************************************************************)
\* line i of the input file, stripped
BatchLine(i) == Strip(input.source[i], Whitespace)

\* the lines of the file that are neither empty nor comments
Expressions == {i \in DOMAIN input.source :
                   BatchLine(i) # <<>> /\ BatchLine(i)[1] # "#"}

\* what a new reader of this configuration makes of line i on its own
Alone(i) == ProcessExpressionArgs(input.args, <<>>, config, BatchLine(i))

\* the outputs, respectively the error messages, of the lines from i on
RECURSIVE OutputFrom(_)
OutputFrom(i) ==
    IF i > Len(input.source) THEN <<>>
    ELSE (IF i \in Expressions /\ Alone(i).ok THEN <<Alone(i).text>> ELSE <<>>)
         \o OutputFrom(i + 1)
RECURSIVE ErrorsFrom(_)
ErrorsFrom(i) ==
    IF i > Len(input.source) THEN <<>>
    ELSE (IF i \in Expressions /\ ~Alone(i).ok
          THEN <<<<"Parse error", Alone(i).err>>>> ELSE <<>>)
         \o ErrorsFrom(i + 1)

\* C12: in file-input mode every line that is neither empty nor a comment is
\* processed, in file order: a line that does not parse leaves an error
\* message and no output, the lines after it still leave their normal
\* output, and the exit code is 0 exactly when no processed line failed.
C12_BatchContinues ==
    pc = "exited" =>
        /\ output = OutputFrom(1)
        /\ stderr = ErrorsFrom(1)
        /\ (returned = 0) <=> (\A i \in Expressions : Alone(i).ok)

\* a file whose first line does not parse and whose second line does was
\* processed: one message, one output, exit code 1.
C12_Witness ==
    /\ pc = "exited"
    /\ Len(input.source) >= 2
    /\ 1 \in Expressions /\ ~Alone(1).ok
    /\ 2 \in Expressions /\ Alone(2).ok
    /\ Len(stderr) >= 1
    /\ output # <<>> /\ output[1] = Alone(2).text
    /\ returned = 1

(***************************************************************************)
(* Claims about the operations of the navigator.                           *)
(***************************************************************************)
NavState ==
    [current |-> current, sibling_index |-> sibling_index,
     position_stack |-> position_stack]

\* the navigator's fields when call i returned
After(i) == IF i = Len(calls) THEN NavState ELSE calls[i + 1].before

\* the calls of one operation
Made(op) == {i \in DOMAIN calls : calls[i].op = op}

\* C13: enter() returns false and changes nothing when the current node has
\* no navigable children; otherwise it returns true, pushes sibling_index,
\* sets sibling_index to 0 and moves to the first navigable child.
C13_Enter ==
    \A i \in Made("enter") :
        LET b == calls[i].before
            a == After(i)
            navigable == GetNavigableChildren(heap, b.current)
        IN IF navigable = <<>>
           THEN calls[i].ret = FALSE /\ a = b
           ELSE /\ calls[i].ret = TRUE
                /\ a.position_stack = Append(b.position_stack, b.sibling_index)
                /\ a.sibling_index = 0
                /\ a.current = navigable[1]

\* enter() succeeded on a second sibling, below an earlier enter().
C13_Witness ==
    \E i \in Made("enter") :
        /\ calls[i].ret = TRUE
        /\ calls[i].before.sibling_index = 1
        /\ After(i).position_stack = <<0, 1>>

\* C14: exit() returns false and changes nothing exactly when the current
\* node is the root or position_stack is empty; otherwise it returns true,
\* moves to the parent of the current node and sets sibling_index to the
\* value it pops from position_stack.
C14_Exit ==
    \A i \in Made("exit") :
        LET b == calls[i].before
            a == After(i)
        IN IF b.current = root \/ b.position_stack = <<>>
           THEN calls[i].ret = FALSE /\ a = b
           ELSE /\ calls[i].ret = TRUE
                /\ a.current = heap[b.current].parent
                /\ a.sibling_index = b.position_stack[Len(b.position_stack)]
                /\ a.position_stack =
                       SubSeq(b.position_stack, 1, Len(b.position_stack) - 1)

\* exit() succeeded two levels down and restored the sibling index 1.
C14_Witness ==
    \E i \in Made("exit") :
        /\ calls[i].ret = TRUE
        /\ calls[i].before.position_stack = <<0, 1>>
        /\ After(i).sibling_index = 1
        /\ After(i).position_stack = <<0>>

\* C15: when enter() returns true, an exit() made right after it returns
\* true and restores current, sibling_index and position_stack to what they
\* were before the enter().
C15_EnterExit ==
    \A i \in Made("enter") :
        (calls[i].ret = TRUE /\ i + 1 \in Made("exit")) =>
            /\ calls[i + 1].ret = TRUE
            /\ After(i + 1) = calls[i].before

\* the navigable siblings of node n, as next() and previous() compute them
Siblings(n) == GetNavigableChildren(heap, heap[n].parent)

\* C16: next() returns false and changes nothing when the current node is
\* the root or the last entry of the navigable children of its parent, and
\* otherwise moves to the entry after the current node and increments
\* sibling_index; previous() returns false and changes nothing when the
\* current node is the root or the first entry, and otherwise moves to the
\* entry before the current node and decrements sibling_index.
C16_NextPrevious ==
    /\ \A i \in Made("next") :
           LET b == calls[i].before
               a == After(i)
           IN IF b.current = root THEN calls[i].ret = FALSE /\ a = b
              ELSE IF Siblings(b.current) # <<>>
                      /\ Siblings(b.current)[Len(Siblings(b.current))] = b.current
              THEN calls[i].ret = FALSE /\ a = b
              ELSE /\ calls[i].ret = TRUE
                   /\ \E k \in 1..(Len(Siblings(b.current)) - 1) :
                          /\ Siblings(b.current)[k] = b.current
                          /\ a.current = Siblings(b.current)[k + 1]
                   /\ a.sibling_index = b.sibling_index + 1
                   /\ a.position_stack = b.position_stack
    /\ \A i \in Made("previous") :
           LET b == calls[i].before
               a == After(i)
           IN IF b.current = root THEN calls[i].ret = FALSE /\ a = b
              ELSE IF Siblings(b.current) # <<>> /\ Siblings(b.current)[1] = b.current
              THEN calls[i].ret = FALSE /\ a = b
              ELSE /\ calls[i].ret = TRUE
                   /\ \E k \in 2..Len(Siblings(b.current)) :
                          /\ Siblings(b.current)[k] = b.current
                          /\ a.current = Siblings(b.current)[k - 1]
                   /\ a.sibling_index = b.sibling_index - 1
                   /\ a.position_stack = b.position_stack

\* call i + 1 is the operation op
Followed(i, op) == i + 1 \in Made(op)

\* C17: when next() returns true, a previous() made right after it returns
\* true and restores current and sibling_index; and when previous() returns
\* true, a next() made right after it returns true and restores them.
C17_NextPreviousInverse ==
    /\ \A i \in Made("next") :
           (calls[i].ret = TRUE /\ Followed(i, "previous")) =>
               /\ calls[i + 1].ret = TRUE
               /\ After(i + 1).current = calls[i].before.current
               /\ After(i + 1).sibling_index = calls[i].before.sibling_index
    /\ \A i \in Made("previous") :
           (calls[i].ret = TRUE /\ Followed(i, "next")) =>
               /\ calls[i + 1].ret = TRUE
               /\ After(i + 1).current = calls[i].before.current
               /\ After(i + 1).sibling_index = calls[i].before.sibling_index

\* C18: whenever the current node is not the root, sibling_index is an index
\* of the navigable children of its parent, and the entry there is the
\* current node.
C18_IndexInvariant ==
    current # root =>
        /\ 0 <= sibling_index
        /\ sibling_index < Len(Siblings(current))
        /\ Siblings(current)[sibling_index + 1] = current

\* C19: when exit() returns false, the current node is the root and
\* position_stack is empty: exit() called until it fails ends at the root.
C19_ExitReachesRoot ==
    \A i \in Made("exit") :
        calls[i].ret = FALSE =>
            /\ After(i).current = root
            /\ After(i).position_stack = <<>>

(***************************************************************************)
(* Claims about the parsing of ^ and _.                                    *)
(***************************************************************************)
\* the tree below n: node type, content, metadata and children in order
RECURSIVE Shape(_, _)
Shape(h, n) ==
    [node_type |-> h[n].node_type, content |-> h[n].content,
     metadata |-> h[n].metadata,
     children |-> [i \in DOMAIN h[n].children |-> Shape(h, h[n].children[i])]]

\* the iterations of the loop that met a ^ or a _
ScriptSteps == {i \in DOMAIN calls : calls[i].op \in {"^", "_"}}

\* the objects when iteration i had ended
HeapAfter(i) == IF i = Len(calls) THEN heap ELSE calls[i + 1].before.heap

\* iteration i raised a ParseError
RaisedAt(i) == i = Len(calls) /\ pc = "raised"

\* what the ^ or _ before position q of s applies to its base: the content of
\* the brace group at q, or else the character at q
ScriptText(s, q) ==
    IF At(s, q) = "{" THEN Slice(s, q + 1, MatchFrom(s, q + 1, 1)) ELSE <<At(s, q)>>

\* the children of node g of h are the trees that parsing t alone puts under
\* a parent without children
HoldsParsed(h, g, t) ==
    \E alone \in {New(<<>>, "GROUP", <<>>, <<>>, EmptyDict)} :
        \E r \in {ParseLatexTokens(alone, t, 1)} :
            /\ r.err = ""
            /\ Shape(h, g).children = Shape(r.heap, 1).children

ScriptType(mark) == IF mark = "^" THEN "SUPERSCRIPT" ELSE "SUBSCRIPT"
ScriptMessage(mark) ==
    IF mark = "^" THEN "Superscript without base" ELSE "Subscript without base"

\* C20: when parse_latex meets ^ (_) and the enclosing parent has a child,
\* the parent's last child is removed and becomes child 0 of a new
\* Superscript (Subscript) node whose child 1 is a Group holding the parse of
\* the content of the following brace group, or else of the single following
\* character; the new node takes the place of the base, so the parent has as
\* many children as before.  When the parent has no child, ParseError
\* "Superscript without base" ("Subscript without base") is raised.
C20_ScriptParse ==
    \A i \in ScriptSteps :
        LET h0 == calls[i].before.heap
            h1 == HeapAfter(i)
            parent == calls[i].before.parent
            q == calls[i].before.pos + 1
            latex == Delimited(input.source)
            before == h0[parent].children
            after == h1[parent].children
        IN /\ before = <<>> =>
                  /\ RaisedAt(i)
                  /\ error.message = ScriptMessage(calls[i].op)
           /\ (before # <<>> /\ ~RaisedAt(i)) =>
                  /\ Len(after) = Len(before)
                  /\ SubSeq(after, 1, Len(after) - 1) = SubSeq(before, 1, Len(before) - 1)
                  /\ after[Len(after)] \notin DOMAIN h0
                  /\ h1[after[Len(after)]].node_type = ScriptType(calls[i].op)
                  /\ Len(h1[after[Len(after)]].children) = 2
                  /\ h1[after[Len(after)]].children[1] = before[Len(before)]
                  /\ Shape(h1, before[Len(before)]) = Shape(h0, before[Len(before)])
                  /\ h1[h1[after[Len(after)]].children[2]].node_type = "GROUP"
                  /\ q < Len(latex) =>
                         HoldsParsed(h1, h1[after[Len(after)]].children[2],
                                     ScriptText(latex, q))

\* ab^{a2} is parsed: b became the base of a Superscript that stands second
\* under the root, and its Group holds a and 2
C20_Witness ==
    /\ pc = "parsed"
    /\ input.source = <<"a", "b", "^", "{", "a", "2", "}">>
    /\ Len(heap[root].children) = 2
    /\ heap[Child(root, 1)].node_type = "SUPERSCRIPT"
    /\ heap[Child(Child(root, 1), 0)].content = <<"b">>
    /\ heap[Child(Child(root, 1), 1)].node_type = "GROUP"
    /\ Len(heap[Child(Child(root, 1), 1)].children) = 2
    /\ \E i \in ScriptSteps : calls[i].before.heap[root].children # <<>>

(***************************************************************************)
(* Claims about the commands of the LaTeX parser.                          *)
(***************************************************************************)
\* the letters that GREEK_LETTERS maps some key to
GreekValues == {GREEK_LETTERS[i][2] : i \in DOMAIN GREEK_LETTERS}

\* the nodes of the parsed tree that hold a Greek letter
GreekNodes ==
    {n \in TreeNodes : Len(heap[n].content) = 1 /\ heap[n].content[1] \in GreekValues}

\* C21: Greek letter command names are looked up case-sensitively: the
\* command spelled exactly as a key of the Greek table produces an Identifier
\* whose content is the letter the table maps that key to, so \Gamma yields
\* the uppercase letter and \gamma the lowercase one.
C21_GreekCaseSensitive ==
    (pc = "done" /\ input.format = "latex" /\ "key" \in DOMAIN input) =>
        /\ error = NoError
        /\ \E n \in GreekNodes : GreekNodes = {n}
        /\ \A n \in GreekNodes :
               /\ heap[n].node_type = "IDENTIFIER"
               /\ heap[n].content = <<Get(GREEK_LETTERS, input.key, "")>>

(***************************************************************************)
(* Claims about the MathML parser.                                         *)
(***************************************************************************)
\* the mfrac, msup, msub or msqrt element of the source
ArityElement ==
    IF TagOf(input.source[1]) = "math"
    THEN input.source[1].children[1]
    ELSE input.source[1]

RequiredArity(tag) == IF tag = "msqrt" THEN 1 ELSE 2

ArityType(tag) ==
    IF tag = "mfrac" THEN "FRACTION"
    ELSE IF tag = "msup" THEN "SUPERSCRIPT"
    ELSE IF tag = "msub" THEN "SUBSCRIPT"
    ELSE "SQRT"

ArityRoles(tag) ==
    IF tag = "mfrac" THEN <<"numerator", "denominator">>
    ELSE IF tag = "msup" THEN <<"base", "exponent">>
    ELSE IF tag = "msub" THEN <<"base", "subscript">>
    ELSE <<"radicand">>

\* the children of node g are what parsing the element e alone puts under a
\* parent without children
HoldsElement(g, e) ==
    \E alone \in {New(<<>>, "GROUP", <<>>, <<>>, EmptyDict)} :
        \E h \in {ParseMathmlElement(alone, e, 1)} :
            Shape(heap, g).children = Shape(h, 1).children

\* C22: in parse_mathml an mfrac, msup or msub with exactly 2 child elements
\* and an msqrt with exactly 1 yield a Fraction, Superscript, Subscript or
\* Sqrt whose children are Groups tagged with their roles, one per child
\* element in order; an element with another number of children does not
\* yield a node of that type with operands missing, dropped or merged.
C22_MathmlArity ==
    (pc = "done" /\ input.format = "mathml" /\ input.source # Invalid
         /\ TagOf(ArityElement) \in ArityTags) =>
        LET e == ArityElement
            tag == TagOf(e)
        IN IF Len(e.children) = RequiredArity(tag)
           THEN /\ error = NoError
                /\ Len(heap[root].children) = 1
                /\ heap[Child(root, 0)].node_type = ArityType(tag)
                /\ Len(heap[Child(root, 0)].children) = RequiredArity(tag)
                /\ \A i \in 1..RequiredArity(tag) :
                       /\ heap[Child(Child(root, 0), i - 1)].node_type = "GROUP"
                       /\ heap[Child(Child(root, 0), i - 1)].metadata
                              = ("role" :> ArityRoles(tag)[i])
                       /\ HoldsElement(Child(Child(root, 0), i - 1), e.children[i])
           ELSE \/ error # NoError
                \/ \A n \in TreeNodes : heap[n].node_type # ArityType(tag)

(***************************************************************************)
(* Claims about the configuration.                                         *)
(***************************************************************************)
\* text is what source is spoken as at the verbosity of style
SpokenAt(text, source, style) ==
    \E p \in {ParseLatex(<<>>, source)} :
        text = SpeechRender(p.heap, p.root,
                            GetVerbosity([Config EXCEPT !.speech.style = style]))

\* C23: the verbosity is resolved from the configuration for each render
\* pass: however changes of config.speech.style and to_speech calls on the
\* same configuration object interleave, every call returns the text of the
\* style that the configuration holds when the call is made.
C23_VerbosityPerPass ==
    \A run \in runs : run.ok => SpokenAt(run.speech, run.source, run.style)

(***************************************************************************)
(* Claims about the Braille converters.                                    *)
(***************************************************************************)
\* the nodes of the given types that have k children
TypesWith(ts, k) == {n \in Types(ts) : Len(heap[n].children) = k}

\* every Fraction over a numerator and a denominator is written, in both
\* notations, as open indicator, numerator, line, denominator, close indicator
FractionOrder ==
    \A n \in TypesWith({"FRACTION"}, 2) :
        /\ returned[n].nemeth =
               NEMETH_FRACTION_OPEN \o returned[Child(n, 0)].nemeth
               \o NEMETH_FRACTION_LINE \o returned[Child(n, 1)].nemeth
               \o NEMETH_FRACTION_CLOSE
        /\ returned[n].ueb =
               UEB_FRACTION_OPEN \o returned[Child(n, 0)].ueb
               \o UEB_FRACTION_LINE \o returned[Child(n, 1)].ueb
               \o UEB_FRACTION_CLOSE

\* C24 as stated: both converters render a Fraction as open indicator,
\* numerator, line indicator, denominator, close indicator, and at each of
\* the indicator positions the Nemeth glyph differs from the UEB glyph.
C24_FractionGlyphsDiffer ==
    pc = "rendered" =>
        /\ FractionOrder
        /\ NEMETH_FRACTION_OPEN # UEB_FRACTION_OPEN
        /\ NEMETH_FRACTION_LINE # UEB_FRACTION_LINE
        /\ NEMETH_FRACTION_CLOSE # UEB_FRACTION_CLOSE

\* C24 amended: both converters render a Fraction in that order; the open
\* and the close indicator of Nemeth differ from those of UEB, and the line
\* indicator is the same cell in both notations.
C24_FractionBraille ==
    pc = "rendered" =>
        /\ FractionOrder
        /\ NEMETH_FRACTION_OPEN # UEB_FRACTION_OPEN
        /\ NEMETH_FRACTION_LINE = UEB_FRACTION_LINE
        /\ NEMETH_FRACTION_CLOSE # UEB_FRACTION_CLOSE

\* the Fraction of a over 2 was rendered in both notations
C24_Witness ==
    /\ pc = "rendered"
    /\ heap[root].node_type = "FRACTION"
    /\ Len(heap[root].children) = 2
    /\ heap[Child(root, 0)].content = <<"a">>
    /\ heap[Child(root, 1)].content = <<"2">>
    /\ returned[root].nemeth = <<"U+2839", "U+2801", "U+280C", "U+283C", "U+2806", "U+283C">>
    /\ returned[root].ueb[1] = "U+2837"

\* the positions of text, from position from on, at which part starts
Starts(text, part, from) ==
    {i \in from..(Len(text) - Len(part) + 1) : SubSeq(text, i, i + Len(part) - 1) = part}

\* text holds open, later radicand, later close
Radical(text, open, radicand, close) ==
    \E i \in Starts(text, open, 1) :
        \E j \in Starts(text, radicand, i + Len(open)) :
            Starts(text, close, j + Len(radicand)) # {}

\* text holds index before the first open
IndexBefore(text, index, open) ==
    \E i \in Starts(text, index, 1) :
        \A k \in Starts(text, open, 1) : i + Len(index) <= k

\* the radical indicators that UEBConverter._render_sqrt writes
UebRadicalOpen == <<"U+2829">>
UebRadicalClose == <<"U+2831">>

\* C25: in both converters the rendering of a Sqrt and of an NRoot holds the
\* notation's open-radical indicator, then the rendering of the radicand,
\* then the close-radical indicator; for an NRoot the rendering of the index
\* is emitted too, in Nemeth before the open-radical indicator.
C25_RadicalBraille ==
    pc = "rendered" =>
        /\ \A n \in TypesWith({"SQRT"}, 1) :
               /\ Radical(returned[n].nemeth, NEMETH_SQRT_OPEN,
                          returned[Child(n, 0)].nemeth, NEMETH_SQRT_CLOSE)
               /\ Radical(returned[n].ueb, UebRadicalOpen,
                          returned[Child(n, 0)].ueb, UebRadicalClose)
        /\ \A n \in TypesWith({"NROOT"}, 2) :
               /\ Radical(returned[n].nemeth, NEMETH_SQRT_OPEN,
                          returned[Child(n, 1)].nemeth, NEMETH_SQRT_CLOSE)
               /\ IndexBefore(returned[n].nemeth, returned[Child(n, 0)].nemeth,
                              NEMETH_SQRT_OPEN)
               /\ Radical(returned[n].ueb, UebRadicalOpen,
                          returned[Child(n, 1)].ueb, UebRadicalClose)
               /\ Starts(returned[n].ueb, returned[Child(n, 0)].ueb, 1) # {}

InConfigNotation(text, source) ==
    \E r \in {ReaderToBraille(config, source,
                 IF config.braille.notation = "UEB" THEN <<"ueb">> ELSE <<"nemeth">>)} :
        text = r.text

\* C27: a to_braille call without a notation argument returns the text in the
\* notation held by config.braille.notation: UEB text when it is UEB, Nemeth
\* text when it is NEMETH.
C27_NotationFromConfig ==
    \A run \in runs :
        (run.args = <<>> /\ run.ok) => InConfigNotation(run.text, run.source)

(***************************************************************************)
(* Claims about the termination of the LaTeX parser.                       *)
(***************************************************************************)
\* the strings a call of _parse_latex_tokens on latex, for a parent without
\* children, calls itself on
CalledOn(latex) == LoopStrings(New(<<>>, "GROUP", <<>>, <<>>, EmptyDict), latex, 0, 1)

\* every call made while latex is parsed, at any depth, is on a string
\* shorter than its caller's
RECURSIVE ShorterCalls(_)
ShorterCalls(latex) ==
    \A content \in CalledOn(latex) : Len(content) < Len(latex) /\ ShorterCalls(content)

\* every iteration that returned left the loop at a position after the one
\* it started from, where the next iteration started
ScanAdvances ==
    \A i \in DOMAIN calls :
        ~RaisedAt(i) =>
            /\ calls[i].ret > calls[i].before.pos
            /\ i < Len(calls) => calls[i + 1].before.pos = calls[i].ret
            /\ (i = Len(calls) /\ pc = "scanning") => returned = calls[i].ret

ParseErrors ==
    {"Unclosed brace", "Expected { after \\frac", "Expected { for denominator",
     "Unclosed [ in sqrt", "Expected { after \\sqrt", "Superscript without base",
     "Subscript without base"}

\* the loop cannot run more often than the source has characters, and what
\* ends it is the return of the tree or an exception
ScanEnds ==
    /\ Len(calls) <= Len(Delimited(input.source))
    /\ pc = "parsed" => returned = root /\ heap[root].node_type = "ROOT"
    /\ pc = "raised" => error.message \in ParseErrors \cup {RecursionError}

\* parse_latex terminates on every finite input, either returning a tree or
\* raising ParseError: every iteration of the scan loop strictly increases
\* the scan position, and every recursive call is made on a strictly shorter
\* string than its caller's.
C28_TreeOrParseError ==
    /\ ScanAdvances
    /\ ScanEnds
    /\ pc \in {"parsed", "raised"} => ShorterCalls(Delimited(input.source))
    /\ pc = "raised" => error.message \in ParseErrors

\* C28: parse_latex terminates on every finite input: every iteration of the
\* scan loop strictly increases the scan position, every recursive call is
\* made on a strictly shorter string than its caller's, and the call returns
\* a tree or raises ParseError unless the nesting of the source needs more
\* frames than the stack holds, when RecursionError is raised and no tree is
\* returned.
C28_Terminates ==
    /\ ScanAdvances
    /\ ScanEnds
    /\ pc \in {"parsed", "raised"} => ShorterCalls(Delimited(input.source))
    /\ pc = "parsed" => LoopFrames(heap, root, 2) <= MaxFrames
    /\ (pc = "raised" /\ error.message = RecursionError) =>
           \E i \in DOMAIN calls :
               /\ RaisedAt(i)
               /\ \E r \in {TokenStep(calls[i].before.heap, Delimited(input.source),
                                      calls[i].before.pos, root)} :
                      r.err = "" /\ LoopFrames(r.heap, root, 2) > MaxFrames

\* the deepest chain of groups that the stack holds was parsed, and after it
\* a ^ whose exponent is a backslash without a letter
C28_Witness ==
    /\ pc = "parsed"
    /\ input.source = Nested(MaxFrames - 2) \o <<"^", "\\">>
    /\ LoopFrames(heap, root, 2) = MaxFrames
    /\ Len(calls) = 2
    /\ calls[2].op = "^"
    /\ <<"\\">> \in CalledOn(Delimited(input.source))

(***************************************************************************)
(* Claims about the ARIA navigator.                                        *)
(***************************************************************************)
MoveOps == {"enter", "exit", "next", "previous"}

\* C29: in every state an ARIANavigator reaches after construction and any
\* sequence of enter(), exit(), next(), previous() and reset(), the
\* FocusManager's focused node id is current.node_id, so that
\* get_aria_attributes() gives tabindex "0" for the current node.
C29_FocusFollowsCurrent ==
    (aria # NoAria /\ \A i \in DOMAIN calls : calls[i].op \in MoveOps \cup {"reset"}) =>
        /\ aria._focus_manager._focused_node_id = heap[current].node_id
        /\ TabIndex(heap, aria, current) = "0"

\* call number i appends an announcement: a move whose `success` is True, or
\* a switch_mode
Appends(i) ==
    \/ calls[i].op \in MoveOps /\ aria.success[i] = "True"
    \/ calls[i].op = "switch_mode"

\* the announcement of call number i: the calls append in their order
AnnouncementOf(i) ==
    aria.announced[Cardinality({j \in 1..i : Appends(j)})]

\* the calls whose announcements are pending after the first i calls, oldest
\* first
RECURSIVE PendingAfter(_)
PendingAfter(i) ==
    IF i = 0 THEN <<>>
    ELSE IF Appends(i) THEN Append(PendingAfter(i - 1), i)
    ELSE IF calls[i].op = "get_next_announcement" /\ PendingAfter(i - 1) # <<>>
    THEN Tail(PendingAfter(i - 1))
    ELSE IF calls[i].op = "clear_announcements" THEN <<>>
    ELSE PendingAfter(i - 1)

\* C30: the announcement queue is first-in first-out and lossless: every
\* successful enter(), exit(), next() or previous() and every switch_mode()
\* appends exactly one announcement, a move that returns false appends none,
\* and successive get_next_announcement() calls return the pending
\* announcements each exactly once in the order of their operations, and
\* None once the queue is empty.
C30_AnnouncementQueue ==
    aria # NoAria =>
        /\ Len(aria.announced) = Cardinality({i \in DOMAIN calls : Appends(i)})
        /\ \A i \in DOMAIN calls :
               calls[i].op = "get_next_announcement" =>
                   aria.outcomes[i] =
                       IF PendingAfter(i - 1) = <<>> THEN "None"
                       ELSE AnnouncementOf(Head(PendingAfter(i - 1)))
        /\ aria._announcement_queue =
               [k \in DOMAIN PendingAfter(Len(calls)) |->
                    AnnouncementOf(PendingAfter(Len(calls))[k])]

====
